---- MODULE Spec2Model ----
(***************************************************************************)
(* CV As Code: the live-reload module (server/live-reload.js), the server  *)
(* state and resume selection (server/state.js, server/resumes.js,         *)
(* shared/resume.js), the API handlers (server/handlers/api.js, routes.js),*)
(* the server process (server/index.js) and the launcher restart loop      *)
(* (launcher/index.js).                                                    *)
(***************************************************************************)
EXTENDS Integers, Sequences, FiniteSets, TLC

\* ------------------------------------------------------------------------
\* Bounds of the model
\* ------------------------------------------------------------------------
MaxClients == 3      \* SSE responses that connect during one run
MaxChanges == 2      \* raw chokidar 'change' notifications during one run
MaxTimers == 2       \* pending timeouts of one kind
MaxList == 1         \* names in the visibleResumes list of a request
MaxSubscribers == 1  \* SSE responses that connect while the documents change
MaxWriteFails == 1   \* writes of config.json that throw during one run
MaxSpawns == 3       \* server processes the launcher spawns during one run
MaxPosts == 1        \* POST /api/config requests whose body has not ended
MaxTime == 2         \* last instant of the file system clock
MaxJobs == 2         \* child processes the server awaits at one time
MaxFails == 12       \* stream failures in a row the observer counts
MaxLoads == 2        \* loads of the preview page

\* ------------------------------------------------------------------------
\* Program constants
\* ------------------------------------------------------------------------
DEBOUNCE_MS == 100
AUTO_SHUTDOWN_DELAY_MS == 5000
EXIT_DELAY_MS == 500      \* setTimeout(() => process.exit(code), 500)
FORCE_EXIT_MS == 3000     \* gracefulShutdown: force exit
FAST_CODE == 2            \* exit code of /api/shutdown-fast
RESTART_CODE == 3         \* exit code of a successful /api/sync

Null == "null"
NoCode == -1            \* no exit code (yet, or killed by a signal)

Min(a, b) == IF a < b THEN a ELSE b

\* ------------------------------------------------------------------------
\* Resume names and the (fixed) file system
\* ------------------------------------------------------------------------
LocalResume == "cv"
TemplateResume == "templates/basic"
ExternalResume == "external:x|/ext/x"
ExternalPath == "/ext/x"
UnknownResume == "nope"

RequestNames == {LocalResume, TemplateResume, ExternalResume, UnknownResume}
Files == {"resume.html", "css/style.css"}

Includes(s, x) == \E i \in 1..Len(s) : s[i] = x

startsWithTemplates(n) == n = TemplateResume
startsWithExternal(n) == n = ExternalResume

\* shared/resume.js getAvailableResumes: resumes/ first, then templates/
getAvailableResumes == <<LocalResume, TemplateResume>>

\* shared/resume.js getExternalResumes: one entry per path that holds resume.html
RECURSIVE getExternalResumes(_)
getExternalResumes(paths) ==
    IF paths = <<>> THEN <<>>
    ELSE (IF Head(paths) = ExternalPath THEN <<ExternalResume>> ELSE <<>>)
         \o getExternalResumes(Tail(paths))

getAllResumesWithExternals(cfg) ==
    getAvailableResumes \o getExternalResumes(cfg.externalPaths)

\* shared/resume.js getResumeDirByName / getResumeDirByNameExtended
getResumeDirByName(n) ==
    IF startsWithTemplates(n) THEN "/repo/templates/basic"
    ELSE IF n = LocalResume THEN "/repo/resumes/cv"
    ELSE "/repo/resumes/nope"

getResumeDirByNameExtended(n) ==
    IF startsWithExternal(n) THEN ExternalPath ELSE getResumeDirByName(n)

\* state.js getVisibleResumesFilter: null, or the stored list
NoFilter == [isNull |-> TRUE, list |-> <<>>]
Filter(l) == [isNull |-> FALSE, list |-> l]
FilterActive(f) == ~f.isNull /\ Len(f.list) > 0

\* a listing that ignores the stored filter
getVisibleResumes_Unfiltered(cfg) == getAllResumesWithExternals(cfg)

\* resumes.js getVisibleResumes
getVisibleResumes(cfg) ==
    LET all == getAllResumesWithExternals(cfg)
        keep(r) == Includes(cfg.visibleResumes.list, r)
    IN  IF FilterActive(cfg.visibleResumes) THEN SelectSeq(all, keep) ELSE all

\* resumes.js getCurrentResumeDir: the directory, and the current resume it
\* leaves in state.currentResume (the fallback selection is a side effect)
getCurrentResumeDir(cur, cfg) ==
    LET all == getAllResumesWithExternals(cfg)
        visible == getVisibleResumes(cfg)
        last == cfg.lastResume
        isVisible == ~FilterActive(cfg.visibleResumes)
                     \/ Includes(cfg.visibleResumes.list, last)
        isUser(r) == ~startsWithTemplates(r) /\ ~startsWithExternal(r)
        userResumes == SelectSeq(visible, isUser)
        selected == IF Len(userResumes) > 0 THEN userResumes[1]
                    ELSE IF Len(visible) > 0 THEN visible[1]
                    ELSE all[1]
    IN  IF Len(all) = 0 THEN [dir |-> Null, current |-> cur]
        ELSE IF cur # Null /\ Includes(all, cur)
             THEN [dir |-> getResumeDirByNameExtended(cur), current |-> cur]
        ELSE IF last # Null /\ Includes(all, last) /\ isVisible
             THEN [dir |-> getResumeDirByNameExtended(last), current |-> last]
        ELSE [dir |-> getResumeDirByNameExtended(selected), current |-> selected]

DefaultConfig == [visibleResumes |-> NoFilter, lastResume |-> Null, externalPaths |-> <<>>]

\* ------------------------------------------------------------------------
\* The files of a resume tree, the staleness check of server/handlers/pdf.js
\* and the PDF command-line tool (cli/pdf.js)
\* ------------------------------------------------------------------------
TreeDirs == {getResumeDirByNameExtended(LocalResume),
             getResumeDirByNameExtended(TemplateResume),
             getResumeDirByNameExtended(ExternalResume)}

\* the source files of a tree: the primary document, a style sheet directly
\* inside css/ and one in a folder below it
TreeFiles == {"resume.html", "css/style.css", "css/print/page.css"}

\* fs.readdirSync(cssDir): the names directly inside css/
CssDirEntries == <<"css/print", "css/style.css">>
endsWithCss(f) == f \in {"css/style.css", "css/print/page.css"}
endsWithHtml(f) == f \in {"resume.html"}

\* live-reload.js watchPatterns: resume.html, **/*.css, **/*.html
watchPatterns(f) == f = "resume.html" \/ endsWithCss(f) \/ endsWithHtml(f)

NoPdf == -1
Times == 0..MaxTime

\* for (const cssFile of cssFiles) if (cssMtime > pdfMtime) return true
RECURSIVE cssNewer(_, _, _)
cssNewer(cssFiles, mtime, pdfMtime) ==
    IF cssFiles = <<>> THEN FALSE
    ELSE IF mtime[Head(cssFiles)] > pdfMtime THEN TRUE
    ELSE cssNewer(Tail(cssFiles), mtime, pdfMtime)

\* the same check with a tie counted as stale
needsPdfRegeneration_TiesStale(pdf, mtime) ==
    IF pdf = NoPdf THEN TRUE
    ELSE IF cssNewer(SelectSeq(CssDirEntries, endsWithCss), mtime, pdf) THEN TRUE
    ELSE mtime["resume.html"] >= pdf

\* needsPdfRegeneration(resumeDir): pdf is the mtime of resumeDir/resume.pdf
\* (NoPdf when the file is absent), mtime the mtimes of the tree's sources
needsPdfRegeneration(pdf, mtime) ==
    IF pdf = NoPdf THEN TRUE
    ELSE IF cssNewer(SelectSeq(CssDirEntries, endsWithCss), mtime, pdf) THEN TRUE
    ELSE mtime["resume.html"] > pdf

\* shared/resume.js getResumeDir: the tree cli/pdf.js renders; a name that is
\* not a local or template resume selects the first user resume
getResumeDir(resumeName) ==
    LET resumes == getAvailableResumes
        isUser(r) == ~startsWithTemplates(r)
        userResumes == SelectSeq(resumes, isUser)
        selected == IF Len(userResumes) > 0 THEN userResumes[1] ELSE resumes[1]
    IN  IF Len(resumes) = 0 THEN Null
        ELSE IF resumeName # Null /\ Includes(resumes, resumeName)
             THEN getResumeDirByName(resumeName)
        ELSE getResumeDirByName(selected)

\* cli/pdf.js generatePDF(resumeDir): exit code, whether resumeDir/resume.pdf
\* was written, whether the browser process was launched; ok = the browser
\* rendered without throwing
generatePDF(resumeDir, ok) ==
    IF resumeDir \notin TreeDirs
    THEN [dir |-> resumeDir, code |-> 1, wrote |-> FALSE, launched |-> FALSE]
    ELSE IF ok THEN [dir |-> resumeDir, code |-> 0, wrote |-> TRUE, launched |-> TRUE]
    ELSE [dir |-> resumeDir, code |-> 1, wrote |-> FALSE, launched |-> TRUE]

\* the argument `--resume=${name}`, as arg.split('=') sees it; no name of
\* the model holds a '='
resumeFlag(name) == <<"--resume", name>>
NoFlag == <<>>

\* shared/resume.js parseResumeArg: arg.split('=')[1], or null without the flag
sharedParseResumeArg(argv) == IF argv = NoFlag THEN Null ELSE argv[2]

\* cli/pdf.js main execution, run as `node cli/pdf.js <argv>`
cliMain(argv, ok) == generatePDF(getResumeDir(sharedParseResumeArg(argv)), ok)

\* a cli/pdf.js run: by = who started it ("pdf": /api/pdf, "ats":
\* /api/ats-test, "shell": a terminal), pdfDir = the directory whose
\* resume.pdf the server reads afterwards
NoCli == [by |-> "none", name |-> Null, dir |-> Null, code |-> NoCode, wrote |-> FALSE,
          launched |-> FALSE, pdfDir |-> Null]
\* body: what the answer carries ("pdf": the file, "text": the extracted
\* text, "error": an error message in its place, "failure": the text of a 500)
NoPdfResp == [op |-> "none", status |-> 0, cached |-> FALSE, dir |-> Null, name |-> Null,
              body |-> ""]

\* cli/ats.js: the text extraction tool.  Its main execution resolves the
\* tree like cli/pdf.js (getResumeDir(parseResumeArg())), reads
\* <tree>/resume.pdf and writes <tree>/ats-extracted-text.txt; a missing
\* resume.pdf and a parse error print an error message and exit with 1.
\* parses = pdfjs reads the file; onStderr = the message goes to stderr
atsMain(argv, pdf, parses, onStderr) ==
    LET dir == getResumeDir(sharedParseResumeArg(argv))
        failed(why) == [dir |-> dir, code |-> 1, wrote |-> FALSE, why |-> why,
                        stdout |-> IF onStderr THEN "" ELSE "error",
                        stderr |-> IF onStderr THEN "error" ELSE ""]
    IN  IF dir \notin TreeDirs \/ pdf[dir] = NoPdf THEN failed("missing")
        ELSE IF ~parses THEN failed("parse")
        ELSE [dir |-> dir, code |-> 0, wrote |-> TRUE, why |-> "", stdout |-> "text",
              stderr |-> ""]

\* runAtsTestAsync that rejects when the child cannot be spawned
runAtsTestAsync_Rejects(spawned, stdout, stderr) ==
    IF ~spawned THEN [settled |-> "reject", text |-> "error"]
    ELSE IF stdout = "" /\ stderr # "" THEN [settled |-> "resolve", text |-> stderr]
    ELSE [settled |-> "resolve", text |-> IF stdout # "" THEN stdout ELSE "error"]

\* runAtsTestAsync: how the promise settles and what with; spawned = FALSE is
\* child.on('error'), otherwise child.on('close') with what the child printed
runAtsTestAsync(spawned, stdout, stderr) ==
    IF ~spawned THEN [settled |-> "resolve", text |-> "error"]
    ELSE IF stdout = "" /\ stderr # "" THEN [settled |-> "resolve", text |-> stderr]
    ELSE [settled |-> "resolve", text |-> IF stdout # "" THEN stdout ELSE "error"]

\* a cli/ats.js run: why = "" (text extracted), "missing" (no resume.pdf),
\* "parse" (parse error) or "spawn" (the child could not be started)
NoExtr == [name |-> Null, dir |-> Null, why |-> "none", wrote |-> FALSE]

\* ------------------------------------------------------------------------
\* Node timeouts.  A variable that holds a Timeout is "null", "live" (the
\* timeout it names is still pending) or "dead" (it ran or was cleared).
\* The pending timeouts of one kind are kept in creation order; a variable is
\* overwritten at every setTimeout, so a live one names the last of them.
\* ------------------------------------------------------------------------
Front(s) == SubSeq(s, 1, Len(s) - 1)
RemoveAt(s, i) == SubSeq(s, 1, i - 1) \o SubSeq(s, i + 1, Len(s))

\* clearTimeout(handle): a no-op for null and for a timeout that ran already
clearTimeout(ts, h) == IF h = "live" THEN Front(ts) ELSE ts
Cleared(h) == IF h = "live" THEN "dead" ELSE h

\* the handle after the i-th pending timeout of its kind has run
AfterRun(ts, h, i) == IF h = "live" /\ i = Len(ts) THEN "dead" ELSE h

\* ------------------------------------------------------------------------
\* live-reload.js
\* ------------------------------------------------------------------------
NoWatcher == [dir |-> Null, resume |-> Null]

\* initWatcher: close the old watcher, resolve the current directory (which
\* may select a fallback resume), watch it, remember dir and name in closures
initWatcher(cur, cfg) ==
    LET d == getCurrentResumeDir(cur, cfg)
    IN  IF d.dir = Null
        THEN [watcher |-> NoWatcher, current |-> d.current]
        ELSE [watcher |-> [dir |-> d.dir, resume |-> d.current], current |-> d.current]

switchWatcher(cur, cfg) == initWatcher(cur, cfg)

\* notifyClients: clients.forEach in insertion order (= connection order);
\* a write that throws deletes that client and the loop goes on
RECURSIVE forEachWrite(_, _, _)
forEachWrite(i, bad, acc) ==
    IF i > MaxClients + 1 THEN acc
    ELSE IF i \notin acc.clients THEN forEachWrite(i + 1, bad, acc)
    ELSE IF i \in bad
         THEN forEachWrite(i + 1, bad, [acc EXCEPT !.clients = @ \ {i}])
         ELSE forEachWrite(i + 1, bad, [acc EXCEPT !.to = @ \cup {i}])

\* a broadcast without the try/catch: the first throwing write ends the loop
notifyClients_AbortOnThrow(cl, bad) ==
    [to |-> {i \in cl : \A b \in (bad \cap cl) : i < b}, clients |-> cl]

notifyClients(cl, bad) == forEachWrite(1, bad, [to |-> {}, clients |-> cl])

\* startAutoShutdownTimer armed with the debounce delay
startAutoShutdownTimer_ShortDelay(ts, h) ==
    [timers |-> Append(IF h # "null" THEN clearTimeout(ts, h) ELSE ts, DEBOUNCE_MS),
     handle |-> "live"]

\* startAutoShutdownTimer: clear the existing timer, arm a new one
startAutoShutdownTimer(ts, h) ==
    [timers |-> Append(IF h # "null" THEN clearTimeout(ts, h) ELSE ts,
                       AUTO_SHUTDOWN_DELAY_MS),
     handle |-> "live"]

\* cancelAutoShutdownTimer that forgets to clear the timeout
cancelAutoShutdownTimer_NoCancel(ts, h) == [timers |-> ts, handle |-> h]

\* cancelAutoShutdownTimer
cancelAutoShutdownTimer(ts, h) ==
    IF h # "null" THEN [timers |-> clearTimeout(ts, h), handle |-> "null"]
    ELSE [timers |-> ts, handle |-> h]

\* the change handler without clearTimeout(debounceTimer)
onChange_NoClear(ts, h, f, r) ==
    [timers |-> Append(ts, [rem |-> DEBOUNCE_MS, file |-> f, resume |-> r]),
     handle |-> "live"]

\* watcher.on('change'): clearTimeout(debounceTimer); debounceTimer = setTimeout(...)
onChange(ts, h, f, r) ==
    [timers |-> Append(clearTimeout(ts, h), [rem |-> DEBOUNCE_MS, file |-> f, resume |-> r]),
     handle |-> "live"]

VARIABLES
    clients,               \* live-reload.js: const clients = new Set()
    conn,                  \* per response: "none", "open" ('close' listeners attached), "closed"
    heartbeat,             \* responses whose setInterval heartbeat is running
    watcher,               \* live-reload.js: let watcher (dir and name captured by its handlers)
    debounceTimer,         \* live-reload.js: let debounceTimer
    autoShutdownTimer,     \* live-reload.js: let autoShutdownTimer
    autoShutdownCallback,  \* live-reload.js: let autoShutdownCallback (TRUE = a function)
    debounceTimers,        \* pending debounce timeouts
    idleTimers,            \* pending auto-shutdown timeouts
    currentResume,         \* state.js: state.currentResume
    config,                \* state.js: state.config
    disk,                  \* contents of resumes/config.json
    writeFails,            \* writes of config.json that threw so far
    nChanges,              \* raw change notifications so far
    proc,                  \* the server process: "none" (not spawned yet), "failed" (could not
                           \* be spawned), "running",
                           \* "closing" (gracefulShutdown ran), "exited"
    exitCode,              \* the code the server process exited with
    exitTimers,            \* pending timeouts that call process.exit(code)
    closeCodes,            \* exit codes of the pending server.close() callbacks
    postPending,           \* POST /api/config requests collecting their body
    resp,                  \* observer: the HTTP response this step sent
    stops,                 \* observer: the exit codes the stop requests answered so far
                           \* prescribe
    lpc,                   \* launcher: where main() is
    shouldCleanup,         \* launcher/index.js: let shouldCleanup
    updateAvailable,       \* launcher/index.js: let updateAvailable
    lastCode,              \* launcher: the exit code runServer() resolved with last
    spawns,                \* launcher: server processes spawned so far
    cleanups,              \* launcher: calls of cleanup() so far
    launcherExit,          \* launcher: the code the launcher exited with
    restart,               \* observer: what followed the last child exit
    nodeModules,           \* node_modules is installed
    written,               \* observer: the event this step wrote, and to whom
    idle,                  \* observer: the current idle episode
    burst,                 \* observer: the current burst of change notifications
    now,                   \* the file system clock (Date.now() of a write)
    srcTime,               \* mtime of each source file of the active tree
    pdfTime,               \* per tree: mtime of resume.pdf, or NoPdf
    jobs,                  \* child processes the server awaits ('close' pending)
    cli,                   \* observer: the cli/pdf.js run that ended in this step
    pdfResp,               \* observer: the /api/pdf or /api/ats-test answer of this step
    txtFrom,               \* per tree: mtime of the resume.pdf that ats-extracted-text.txt
                           \* was extracted from, or NoPdf when there is no text file
    extr,                  \* observer: the cli/ats.js run that ended in this step
    liveReloadEventSource, \* live-reload client: "null", or the state of the EventSource
                           \* it refers to: "connecting", "open", "closed"
    liveReloadReconnectAttempts, \* live-reload client: let liveReloadReconnectAttempts
    liveReloadStopping,    \* live-reload client: let liveReloadStopping
    retryTimers,           \* live-reload client: setTimeout(initLiveReload) pending
    liveReloadStatus,      \* the banner 'liveReloadStatus': "hidden", "info", "warning", "error"
    reloadNotification,    \* the banner 'reloadNotification' is shown
    dismissPending,        \* the auto-dismiss timeout of a 'liveReloadStatus' banner is
                           \* pending
    fails,                 \* observer: stream failures since the page loaded or the
                           \* last `connected` event
    started,               \* observer: this step constructed an EventSource
    pageLoads              \* observer: how often the page was loaded

lrVars == <<clients, conn, heartbeat, watcher, debounceTimer, autoShutdownTimer,
            autoShutdownCallback, debounceTimers, idleTimers, nChanges>>
docVars == <<currentResume, config, disk, writeFails>>
srvVars == <<proc, exitCode, exitTimers, closeCodes, postPending, resp, stops>>
launcherVars == <<lpc, shouldCleanup, updateAvailable, lastCode, spawns, cleanups,
                  launcherExit, restart, nodeModules>>
obsVars == <<written, idle, burst>>
pdfVars == <<now, srcTime, pdfTime, jobs, cli, pdfResp, txtFrom, extr>>
pageVars == <<liveReloadEventSource, liveReloadReconnectAttempts, liveReloadStopping,
              retryTimers, liveReloadStatus, reloadNotification, dismissPending, fails,
              started, pageLoads>>
vars == <<lrVars, docVars, srvVars, launcherVars, obsVars, pdfVars, pageVars>>

ClientIds == 1..MaxClients

\* an idle episode: armed = startAutoShutdownTimer ran since the last
\* registration; open = the registry went from one client to none through a
\* disconnect and nobody registered since; since = ms since then (saturating);
\* invoked = callback invocations since the last registration (saturating);
\* cleaned = cleanup() ran since; cancelled = the last registration cancelled
\* a pending timer part of whose delay had passed
\* late = the timer was armed by a close event that found the registry
\* already empty
IdleNone == [armed |-> FALSE, open |-> FALSE, since |-> 0, invoked |-> 0,
             cleaned |-> FALSE, cancelled |-> FALSE, late |-> FALSE]
\* a burst: n = raw notifications in it (saturating), reloads = `reload`
\* broadcasts since it began (saturating), file = the last changed file,
\* sent = the file the broadcast carried, cleaned = cleanup() ran since
BurstNone == [n |-> 0, reloads |-> 0, file |-> "", sent |-> "", cleaned |-> FALSE]
\* what a step wrote: the event, the registry before the call (before), the
\* clients whose write threw (failed) and those that got the event (to)
NoEvent == [type |-> "none", file |-> "", resume |-> Null, before |-> {},
            failed |-> {}, to |-> {}]

Event(type, f, r, cl, bad) ==
    [type |-> type, file |-> f, resume |-> r, before |-> cl, failed |-> bad \cap cl,
     to |-> notifyClients(cl, bad).to]

NoResp == [op |-> "none", status |-> 0, name |-> Null, current |-> Null]
NoRestart == [seen |-> FALSE, respawns |-> 0, cleaned |-> FALSE, signalled |-> FALSE]

\* the launcher before main() has run
LauncherAtStart ==
    /\ lpc = "start"
    /\ shouldCleanup = TRUE
    /\ updateAvailable = FALSE
    /\ lastCode = NoCode
    /\ spawns = 0
    /\ cleanups = 0
    /\ launcherExit = NoCode
    /\ restart = NoRestart
    /\ nodeModules = FALSE

\* the live-reload module and the server process as a new process has them
ModuleAtStart ==
    /\ clients = {}
    /\ conn = [c \in ClientIds |-> "none"]
    /\ heartbeat = {}
    /\ debounceTimer = "null"
    /\ autoShutdownTimer = "null"
    /\ debounceTimers = <<>>
    /\ idleTimers = <<>>
    /\ nChanges = 0
    /\ written = NoEvent
    /\ idle = IdleNone
    /\ burst = BurstNone

ProcessAtStart ==
    /\ exitCode = NoCode
    /\ exitTimers = <<>>
    /\ closeCodes = <<>>
    /\ postPending = 0
    /\ resp = NoResp
    /\ writeFails = 0
    /\ stops = {}

\* the preview page after its scripts ran: initLiveReload() on page load
PageAtLoad ==
    /\ liveReloadEventSource = "connecting"
    /\ liveReloadReconnectAttempts = 0
    /\ liveReloadStopping = FALSE
    /\ retryTimers = 0
    /\ liveReloadStatus = "hidden"
    /\ reloadNotification = FALSE
    /\ dismissPending = FALSE
    /\ fails = 0
    /\ started = TRUE
    /\ pageLoads = 1

\* no render has happened and none is under way
RenderAtStart ==
    /\ now = 0
    /\ srcTime = [f \in TreeFiles |-> 0]
    /\ pdfTime = [d \in TreeDirs |-> NoPdf]
    /\ jobs = <<>>
    /\ cli = NoCli
    /\ pdfResp = NoPdfResp
    /\ txtFrom = [d \in TreeDirs |-> NoPdf]
    /\ extr = NoExtr

\* ------------------------------------------------------------------------
\* live-reload.js event handlers
\* ------------------------------------------------------------------------

\* a handler that announces the new connection to every subscriber
SSEConnection_Broadcast(c) ==
    LET cancel == cancelAutoShutdownTimer(idleTimers, autoShutdownTimer)
    IN  /\ conn[c] = "none"
        /\ \A j \in ClientIds : j < c => conn[j] # "none"
        /\ written' = [NoEvent EXCEPT !.type = "connected", !.resume = currentResume',
                                      !.to = clients \cup {c}]
        /\ clients' = clients \cup {c}
        /\ conn' = [conn EXCEPT ![c] = "open"]
        /\ heartbeat' = heartbeat \cup {c}
        /\ idleTimers' = cancel.timers
        /\ autoShutdownTimer' = cancel.handle
        /\ idle' = IdleNone
        /\ UNCHANGED <<watcher, debounceTimer, debounceTimers, autoShutdownCallback,
                       nChanges, burst>>

\* handleSSEConnection(res): write `connected` to res, register it, cancel
\* the idle timer, attach the close handlers, start the heartbeat
SSEConnection(c) ==
    LET cancel == cancelAutoShutdownTimer(idleTimers, autoShutdownTimer)
        early == /\ autoShutdownTimer = "live"
                 /\ idleTimers[Len(idleTimers)] \in 1..(AUTO_SHUTDOWN_DELAY_MS - 1)
    IN  /\ conn[c] = "none"
        /\ \A j \in ClientIds : j < c => conn[j] # "none"
        /\ written' = [NoEvent EXCEPT !.type = "connected", !.resume = currentResume',
                                      !.to = {c}]
        /\ clients' = clients \cup {c}
        /\ conn' = [conn EXCEPT ![c] = "open"]
        /\ heartbeat' = heartbeat \cup {c}
        /\ idleTimers' = cancel.timers
        /\ autoShutdownTimer' = cancel.handle
        /\ idle' = [IdleNone EXCEPT !.cancelled = early]
        /\ UNCHANGED <<watcher, debounceTimer, debounceTimers, autoShutdownCallback,
                       nChanges, burst>>

\* a close handler that arms the timer whoever remains
SSEClose_AlwaysArms(c) ==
    LET arm == startAutoShutdownTimer(idleTimers, autoShutdownTimer)
    IN  /\ conn[c] = "open"
        /\ clients' = clients \ {c}
        /\ conn' = [conn EXCEPT ![c] = "closed"]
        /\ heartbeat' = heartbeat \ {c}
        /\ Len(arm.timers) <= MaxTimers
        /\ idleTimers' = arm.timers
        /\ autoShutdownTimer' = arm.handle
        /\ idle' = [idle EXCEPT !.armed = TRUE]
        /\ written' = NoEvent
        /\ UNCHANGED <<watcher, debounceTimer, debounceTimers, autoShutdownCallback,
                       nChanges, burst>>

\* res.on('close'): both listeners, in registration order
SSEClose(c) ==
    LET left == clients \ {c}
        arm == startAutoShutdownTimer(idleTimers, autoShutdownTimer)
    IN  /\ conn[c] = "open"
        /\ clients' = left
        /\ conn' = [conn EXCEPT ![c] = "closed"]
        /\ heartbeat' = heartbeat \ {c}
        /\ IF left = {}
           THEN /\ Len(arm.timers) <= MaxTimers
                /\ idleTimers' = arm.timers
                /\ autoShutdownTimer' = arm.handle
           ELSE UNCHANGED <<idleTimers, autoShutdownTimer>>
        /\ idle' = IF clients = {c}
                   THEN [IdleNone EXCEPT !.armed = TRUE, !.open = TRUE]
                   ELSE IF left = {}
                        THEN [idle EXCEPT !.armed = TRUE, !.cancelled = FALSE, !.late = TRUE]
                   ELSE idle
        /\ written' = NoEvent
        /\ UNCHANGED <<watcher, debounceTimer, debounceTimers, autoShutdownCallback,
                       nChanges, burst>>

\* the heartbeat interval of c runs and its write throws
HeartbeatFails(c) ==
    /\ c \in heartbeat
    /\ heartbeat' = heartbeat \ {c}
    /\ clients' = clients \ {c}
    /\ written' = NoEvent
    /\ UNCHANGED <<conn, watcher, debounceTimer, debounceTimers, autoShutdownTimer,
                   idleTimers, autoShutdownCallback, nChanges, idle, burst>>

\* watcher.on('change') for a file of the watched tree
WatcherChange(f) ==
    LET set == onChange(debounceTimers, debounceTimer, f, watcher.resume)
    IN  /\ watcher # NoWatcher
        /\ nChanges < MaxChanges
        /\ Len(set.timers) <= MaxTimers
        /\ nChanges' = nChanges + 1
        /\ debounceTimers' = set.timers
        /\ debounceTimer' = set.handle
        /\ burst' = IF debounceTimers # <<>>
                    THEN [burst EXCEPT !.n = Min(@ + 1, 2), !.file = f]
                    ELSE [BurstNone EXCEPT !.n = 1, !.file = f]
        /\ written' = NoEvent
        /\ UNCHANGED <<clients, conn, heartbeat, watcher, autoShutdownTimer, idleTimers,
                       autoShutdownCallback, idle>>

\* a debounce timeout runs: notifyClients('reload', {file, resume})
DebounceFires(i, bad) ==
    /\ i \in 1..Len(debounceTimers)
    /\ debounceTimers[i].rem = 0
    /\ bad \subseteq clients
    /\ debounceTimers' = RemoveAt(debounceTimers, i)
    /\ debounceTimer' = AfterRun(debounceTimers, debounceTimer, i)
    /\ clients' = notifyClients(clients, bad).clients
    /\ written' = Event("reload", debounceTimers[i].file, debounceTimers[i].resume, clients, bad)
    /\ burst' = [burst EXCEPT !.reloads = Min(@ + 1, 2), !.sent = debounceTimers[i].file]
    /\ UNCHANGED <<conn, heartbeat, watcher, autoShutdownTimer, idleTimers,
                   autoShutdownCallback, nChanges, idle>>

\* does the auto-shutdown timeout call the callback?
CallsBack == clients = {} /\ autoShutdownCallback

\* an auto-shutdown timeout runs
IdleFires(i) ==
    /\ i \in 1..Len(idleTimers)
    /\ idleTimers[i] = 0
    /\ idleTimers' = RemoveAt(idleTimers, i)
    /\ autoShutdownTimer' = AfterRun(idleTimers, autoShutdownTimer, i)
    /\ idle' = IF CallsBack THEN [idle EXCEPT !.invoked = Min(@ + 1, 2)] ELSE idle
    /\ written' = NoEvent
    /\ UNCHANGED <<clients, conn, heartbeat, watcher, debounceTimer, debounceTimers,
                   autoShutdownCallback, nChanges, burst>>

\* cleanup(): close the watcher, clear the registry, clear both timeouts
LRCleanup ==
    /\ watcher' = NoWatcher
    /\ clients' = {}
    /\ debounceTimers' = clearTimeout(debounceTimers, debounceTimer)
    /\ debounceTimer' = Cleared(debounceTimer)
    /\ idleTimers' = IF autoShutdownTimer # "null"
                     THEN clearTimeout(idleTimers, autoShutdownTimer) ELSE idleTimers
    /\ autoShutdownTimer' = "null"
    /\ idle' = [idle EXCEPT !.cleaned = TRUE]
    /\ burst' = [burst EXCEPT !.cleaned = TRUE]
    /\ written' = NoEvent
    /\ UNCHANGED <<conn, heartbeat, autoShutdownCallback, nChanges>>

\* time passes: up to the next deadline, or to the middle of a fresh
\* debounce window
Rems == {idleTimers[i] : i \in 1..Len(idleTimers)} \cup
        {debounceTimers[i].rem : i \in 1..Len(debounceTimers)} \cup
        {exitTimers[i].rem : i \in 1..Len(exitTimers)}
MinRem == CHOOSE r \in Rems : \A q \in Rems : r <= q
TickSteps == IF Rems = {} THEN {}
             ELSE {MinRem} \cup (IF MinRem = DEBOUNCE_MS THEN {DEBOUNCE_MS \div 2} ELSE {})

Tick(d) ==
    /\ d \in TickSteps
    /\ d > 0
    /\ idleTimers' = [i \in 1..Len(idleTimers) |-> idleTimers[i] - d]
    /\ debounceTimers' = [i \in 1..Len(debounceTimers) |->
                            [debounceTimers[i] EXCEPT !.rem = @ - d]]
    /\ exitTimers' = [i \in 1..Len(exitTimers) |-> [exitTimers[i] EXCEPT !.rem = @ - d]]
    /\ idle' = IF idle.open /\ idle.invoked = 0
               THEN [idle EXCEPT !.since = Min(@ + d, AUTO_SHUTDOWN_DELAY_MS)]
               ELSE idle
    /\ written' = NoEvent
    /\ UNCHANGED <<clients, conn, heartbeat, watcher, debounceTimer, autoShutdownTimer,
                   autoShutdownCallback, nChanges, burst>>

\* ------------------------------------------------------------------------
\* state.js, handlers/api.js, routes.js: the HTTP requests
\* ------------------------------------------------------------------------

\* state.js saveConfig(updates): merge the updates into state.config, then
\* write the file; a write that throws leaves the file alone and returns false
saveConfig(cfg, dsk, updates, ok) ==
    LET has(k) == \E u \in updates : u[1] = k
        val(k) == (CHOOSE u \in updates : u[1] = k)[2]
        merged == [visibleResumes |-> IF has("visibleResumes") THEN val("visibleResumes")
                                      ELSE cfg.visibleResumes,
                   lastResume |-> IF has("lastResume") THEN val("lastResume")
                                  ELSE cfg.lastResume,
                   externalPaths |-> IF has("externalPaths") THEN val("externalPaths")
                                     ELSE cfg.externalPaths]
    IN  [config |-> merged, disk |-> IF ok THEN merged ELSE dsk, result |-> ok]

\* state.js loadConfig: the file's fields become state.config
loadConfig(dsk) == dsk

\* state.js parseResumeArg: --resume=<name> sets state.currentResume
parseResumeArg(arg) == arg

\* routes.js handleRequest, before routing: getCurrentResumeDir() selects a
\* fallback resume when the current one is not a known one
Prelude == getCurrentResumeDir(currentResume, config)

\* the launcher is another process
NoLauncher == UNCHANGED launcherVars

\* no file of a tree is written, no render child starts or ends
NoRender == UNCHANGED <<pdfVars, pageVars>>

\* the live-reload module does nothing in this step
NoLiveReload == /\ UNCHANGED <<lrVars, idle, burst>>
                /\ written' = NoEvent

\* the server process stays as it is in this step
SameProcess == UNCHANGED <<proc, exitCode, exitTimers, closeCodes, stops>>

\* a write of config.json throws in this step only if the handler writes
WriteFails(saved, ok) ==
    /\ ~ok => saved /\ writeFails < MaxWriteFails
    /\ writeFails' = IF ok THEN writeFails ELSE writeFails + 1

\* a request that only reads (GET /api/resumes, GET /api/config, /resume ...)
GetRequest ==
    /\ proc = "running"
    /\ NoLauncher
    /\ NoRender
    /\ currentResume' = Prelude.current
    /\ resp' = [NoResp EXCEPT !.op = "get", !.status = 200, !.current = currentResume']
    /\ UNCHANGED <<config, disk, writeFails, postPending>>
    /\ SameProcess
    /\ NoLiveReload

\* api.js handleSwitchResume(res, newResume)
handleSwitchResume(n, cur, cfg, dsk, w, ok) ==
    LET save == saveConfig(cfg, dsk, {<<"lastResume", n>>}, ok)
        sw == switchWatcher(n, save.config)
    IN  IF Includes(getAllResumesWithExternals(cfg), n)
        THEN [status |-> 200, current |-> sw.current, config |-> save.config,
              disk |-> save.disk, watcher |-> sw.watcher, notify |-> TRUE, saved |-> TRUE]
        ELSE [status |-> 404, current |-> cur, config |-> cfg, disk |-> dsk,
              watcher |-> w, notify |-> FALSE, saved |-> FALSE]

\* GET or POST /api/switch/<n>; ok = the config file can be written, bad =
\* the subscribers whose write throws
SwitchRequest(n, ok, bad) ==
    \E r \in {handleSwitchResume(n, Prelude.current, config, disk, watcher, ok)} :
        /\ proc = "running"
        /\ NoLauncher
        /\ NoRender
        /\ bad \subseteq clients
        /\ WriteFails(r.saved, ok)
        /\ currentResume' = r.current
        /\ config' = r.config
        /\ disk' = r.disk
        /\ watcher' = r.watcher
        /\ clients' = IF r.notify THEN notifyClients(clients, bad).clients ELSE clients
        /\ written' = IF r.notify THEN Event("switch", "", n, clients, bad) ELSE NoEvent
        /\ resp' = [op |-> "switch", status |-> r.status, name |-> n,
                    current |-> IF r.status = 200 THEN n ELSE Null]
        /\ UNCHANGED <<conn, heartbeat, debounceTimer, autoShutdownTimer,
                       autoShutdownCallback, debounceTimers, idleTimers, nChanges,
                       idle, burst, postPending>>
        /\ SameProcess

\* POST /api/config arrives: handlePostConfig starts collecting the body
PostConfigRequest ==
    /\ proc = "running"
    /\ NoLauncher
    /\ NoRender
    /\ postPending < MaxPosts
    /\ postPending' = postPending + 1
    /\ currentResume' = Prelude.current
    /\ resp' = NoResp
    /\ UNCHANGED <<config, disk, writeFails>>
    /\ SameProcess
    /\ NoLiveReload

\* a field of the posted JSON: an array, or anything else
NotArray == [isArray |-> FALSE, list |-> <<>>]
Array(l) == [isArray |-> TRUE, list |-> l]

RECURSIVE SeqsUpTo(_, _)
SeqsUpTo(S, n) ==
    IF n = 0 THEN {<<>>}
    ELSE LET shorter == SeqsUpTo(S, n - 1)
         IN  shorter \cup {Append(s, x) : s \in shorter, x \in S}

PostBodies ==
    {[json |-> FALSE, externalPaths |-> NotArray, visibleResumes |-> NotArray]} \cup
    [json : {TRUE},
     externalPaths : {NotArray, Array(<<>>), Array(<<ExternalPath>>)},
     visibleResumes : {NotArray} \cup {Array(l) : l \in SeqsUpTo(RequestNames, MaxList)}]

\* api.js handlePostConfig: the callback that runs when the body has ended
handlePostConfig(data, cur, cfg, dsk, w, ok) ==
    LET cfg1 == IF data.externalPaths.isArray
                THEN [cfg EXCEPT !.externalPaths = data.externalPaths.list] ELSE cfg
        allResumes == getAllResumesWithExternals(cfg1)
        known(r) == Includes(allResumes, r)
        validResumes == SelectSeq(data.visibleResumes.list, known)
        cfg2 == [cfg1 EXCEPT !.visibleResumes = Filter(validResumes)]
        cur2 == IF ~Includes(validResumes, cur) THEN validResumes[1] ELSE cur
        save1 == saveConfig(cfg1, dsk, {}, ok)
        save2 == saveConfig(cfg2, dsk, {}, ok)
    IN  IF ~data.json
        THEN [status |-> 400, current |-> cur, config |-> cfg, disk |-> dsk, watcher |-> w,
              saved |-> FALSE]
        ELSE IF data.visibleResumes.isArray
        THEN IF Len(validResumes) = 0
             THEN [status |-> 400, current |-> cur, config |-> cfg1, disk |-> dsk,
                   watcher |-> w, saved |-> FALSE]
             ELSE [status |-> IF save2.result THEN 200 ELSE 500, current |-> cur2,
                   config |-> save2.config, disk |-> save2.disk, watcher |-> w,
                   saved |-> TRUE]
        ELSE IF data.externalPaths.isArray
        THEN [status |-> IF save1.result THEN 200 ELSE 500, current |-> cur,
              config |-> save1.config, disk |-> save1.disk, watcher |-> w, saved |-> TRUE]
        ELSE [status |-> 400, current |-> cur, config |-> cfg, disk |-> dsk, watcher |-> w,
              saved |-> FALSE]

\* the body of a POST /api/config has ended
PostConfigBody(data, ok) ==
    \E r \in {handlePostConfig(data, currentResume, config, disk, watcher, ok)} :
        /\ proc = "running"
        /\ NoLauncher
        /\ NoRender
        /\ postPending > 0
        /\ postPending' = postPending - 1
        /\ WriteFails(r.saved, ok)
        /\ currentResume' = r.current
        /\ config' = r.config
        /\ disk' = r.disk
        /\ watcher' = r.watcher
        /\ resp' = [NoResp EXCEPT !.op = "config", !.status = r.status]
        /\ written' = NoEvent
        /\ UNCHANGED <<clients, conn, heartbeat, debounceTimer, autoShutdownTimer,
                       autoShutdownCallback, debounceTimers, idleTimers, nChanges,
                       idle, burst>>
        /\ SameProcess

\* GET /api/live-reload
EventsRequest(c) ==
    /\ proc = "running"
    /\ NoLauncher
    /\ NoRender
    /\ currentResume' = Prelude.current
    /\ resp' = [NoResp EXCEPT !.op = "events", !.status = 200]
    /\ UNCHANGED <<config, disk, writeFails, postPending>>
    /\ SameProcess
    /\ SSEConnection(c)

\* handleShutdown (code 0), handleShutdownFast (code 2): answer, then exit
\* after EXIT_DELAY_MS
ShutdownRequest(code) ==
    /\ proc = "running"
    /\ NoLauncher
    /\ NoRender
    /\ Len(exitTimers) < MaxTimers
    /\ currentResume' = Prelude.current
    /\ exitTimers' = Append(exitTimers, [rem |-> EXIT_DELAY_MS, code |-> code])
    /\ stops' = stops \cup {code}
    /\ resp' = [NoResp EXCEPT !.op = "shutdown", !.status = 200]
    /\ UNCHANGED <<config, disk, writeFails, postPending, proc, exitCode, closeCodes>>
    /\ NoLiveReload

\* handleSync without the early returns: the exit is scheduled whether git
\* failed or not
SyncRequest_ExitsOnFailure(gitOk) ==
    /\ proc = "running"
    /\ NoLauncher
    /\ NoRender
    /\ Len(exitTimers) < MaxTimers
    /\ currentResume' = Prelude.current
    /\ exitTimers' = Append(exitTimers, [rem |-> EXIT_DELAY_MS, code |-> RESTART_CODE])
    /\ stops' = IF gitOk THEN stops \cup {RESTART_CODE} ELSE stops
    /\ resp' = [NoResp EXCEPT !.op = "sync", !.status = IF gitOk THEN 200 ELSE 500]
    /\ UNCHANGED <<config, disk, writeFails, postPending, proc, exitCode, closeCodes>>
    /\ NoLiveReload

\* handleSync: git fetch and git reset; on success answer and exit with
\* RESTART_CODE after EXIT_DELAY_MS, on failure answer 500
SyncRequest(gitOk) ==
    /\ proc = "running"
    /\ NoLauncher
    /\ NoRender
    /\ Len(exitTimers) < MaxTimers
    /\ currentResume' = Prelude.current
    /\ exitTimers' = IF gitOk
                     THEN Append(exitTimers, [rem |-> EXIT_DELAY_MS, code |-> RESTART_CODE])
                     ELSE exitTimers
    /\ stops' = IF gitOk THEN stops \cup {RESTART_CODE} ELSE stops
    /\ resp' = [NoResp EXCEPT !.op = "sync", !.status = IF gitOk THEN 200 ELSE 500]
    /\ UNCHANGED <<config, disk, writeFails, postPending, proc, exitCode, closeCodes>>
    /\ NoLiveReload

\* ------------------------------------------------------------------------
\* server/index.js: the process
\* ------------------------------------------------------------------------

\* a timeout whose callback is process.exit(code) runs
ExitTimerFires(i) ==
    /\ proc \in {"running", "closing"}
    /\ NoLauncher
    /\ NoRender
    /\ i \in 1..Len(exitTimers)
    /\ exitTimers[i].rem = 0
    /\ proc' = "exited"
    /\ exitCode' = exitTimers[i].code
    /\ exitTimers' = RemoveAt(exitTimers, i)
    /\ resp' = NoResp
    /\ UNCHANGED <<docVars, stops, closeCodes, postPending>>
    /\ NoLiveReload

\* gracefulShutdown(signal, exitCode): SIGINT and SIGTERM with code 0,
\* uncaughtException and unhandledRejection with code 1
gracefulShutdown(code) ==
    /\ proc \in {"running", "closing"}
    /\ NoLauncher
    /\ NoRender
    /\ Len(exitTimers) < MaxTimers
    /\ LRCleanup
    /\ proc' = "closing"
    /\ closeCodes' = Append(closeCodes, code)
    /\ exitTimers' = Append(exitTimers, [rem |-> FORCE_EXIT_MS, code |-> code])
    /\ resp' = NoResp
    /\ UNCHANGED <<docVars, stops, exitCode, postPending>>

\* the server's 'close' event: no connection is left, the callbacks given to
\* server.close() run in order and the first one exits
ServerClosed ==
    /\ proc = "closing"
    /\ NoLauncher
    /\ NoRender
    /\ \A c \in ClientIds : conn[c] # "open"
    /\ postPending = 0
    /\ proc' = "exited"
    /\ exitCode' = Head(closeCodes)
    /\ resp' = NoResp
    /\ UNCHANGED <<docVars, stops, exitTimers, closeCodes, postPending>>
    /\ NoLiveReload

\* server.on('error'): process.exit(1)
ServerError ==
    /\ proc = "running"
    /\ NoLauncher
    /\ NoRender
    /\ proc' = "exited"
    /\ exitCode' = 1
    /\ resp' = NoResp
    /\ UNCHANGED <<docVars, stops, exitTimers, closeCodes, postPending>>
    /\ NoLiveReload

\* a signal without a handler kills the process: it has no exit code
ServerKilled ==
    /\ proc \in {"running", "closing"}
    /\ NoLauncher
    /\ NoRender
    /\ proc' = "exited"
    /\ exitCode' = NoCode
    /\ resp' = NoResp
    /\ UNCHANGED <<docVars, stops, exitTimers, closeCodes, postPending>>
    /\ NoLiveReload

\* an event of the live-reload module inside the server process
InServer == /\ proc \in {"running", "closing"}
            /\ NoLauncher
            /\ NoRender
            /\ resp' = NoResp
            /\ UNCHANGED <<docVars, proc, exitCode, closeCodes, postPending, stops>>

\* ------------------------------------------------------------------------
\* The assembled server: index.js start-up (loadConfig, parseResumeArg,
\* getCurrentResumeDir, listen -> initWatcher); nothing registers a shutdown
\* callback
\* ------------------------------------------------------------------------
StartArgs == {Null, TemplateResume, UnknownResume}
InitialDisks ==
    {DefaultConfig,
     [DefaultConfig EXCEPT !.lastResume = TemplateResume],
     [visibleResumes |-> NoFilter, lastResume |-> ExternalResume,
      externalPaths |-> <<ExternalPath>>]}

Started(arg, dsk) ==
    LET cfg == loadConfig(dsk)
        cur == getCurrentResumeDir(parseResumeArg(arg), cfg).current
    IN  [config |-> cfg, start |-> initWatcher(cur, cfg)]

ServerAtStart ==
    /\ \E arg \in StartArgs, dsk \in InitialDisks : \E s \in {Started(arg, dsk)} :
          /\ disk = dsk
          /\ config = s.config
          /\ currentResume = s.start.current
          /\ watcher = s.start.watcher
    /\ ModuleAtStart
    /\ ProcessAtStart
    /\ proc = "running"
    /\ autoShutdownCallback = FALSE
    /\ LauncherAtStart
    /\ PageAtLoad

Init ==
    /\ ServerAtStart
    /\ RenderAtStart

\* the process and its connections: requests that leave the documents alone,
\* disconnects, timers, signals
Next ==
    \/ \E c \in ClientIds : EventsRequest(c)
    \/ \E c \in ClientIds : InServer /\ UNCHANGED exitTimers /\ SSEClose(c)
    \/ \E c \in ClientIds : InServer /\ UNCHANGED exitTimers /\ HeartbeatFails(c)
    \/ \E i \in 1..MaxTimers : InServer /\ UNCHANGED exitTimers /\ IdleFires(i)
    \/ \E d \in TickSteps : InServer /\ Tick(d)
    \/ \E code \in {0, FAST_CODE} : ShutdownRequest(code)
    \/ \E gitOk \in BOOLEAN : SyncRequest(gitOk)
    \/ \E i \in 1..MaxTimers : ExitTimerFires(i)
    \/ \E code \in {0, 1} : gracefulShutdown(code)
    \/ ServerClosed
    \/ ServerError
    \/ ServerKilled

Spec == Init /\ [][Next]_vars

\* the documents: switch and configuration requests, subscribers and their
\* failing writes; no time passes
ApiNext ==
    \/ GetRequest
    \/ \E n \in RequestNames, ok \in BOOLEAN : \E bad \in SUBSET clients :
          SwitchRequest(n, ok, bad)
    \/ PostConfigRequest
    \/ \E data \in PostBodies, ok \in BOOLEAN : PostConfigBody(data, ok)
    \/ \E c \in 1..MaxSubscribers : EventsRequest(c)

ApiSpec == Init /\ [][ApiNext]_vars

\* ------------------------------------------------------------------------
\* launcher/index.js
\* ------------------------------------------------------------------------
\* a close listener that takes a missing exit code for the restart code
resolveCode_NullIsRestart(code) == IF code = NoCode THEN RESTART_CODE ELSE code

\* runServer: serverProcess.on('close', code => resolve(code ?? 0))
resolveCode(code) == IF code = NoCode THEN 0 ELSE code

NoServer == UNCHANGED <<lrVars, docVars, srvVars, obsVars, pdfVars, pageVars>>

\* spawn('node', ['server/index.js']): a new server process starts, without
\* a --resume argument, from the config.json on disk
Spawned ==
    \E s \in {Started(Null, disk)} :
        /\ proc' = "running"
        /\ exitCode' = NoCode
        /\ exitTimers' = <<>>
        /\ closeCodes' = <<>>
        /\ postPending' = 0
        /\ resp' = NoResp
        /\ stops' = {}
        /\ config' = s.config
        /\ currentResume' = s.start.current
        /\ watcher' = s.start.watcher
        /\ clients' = {}
        /\ conn' = [c \in ClientIds |-> "none"]
        /\ heartbeat' = {}
        /\ debounceTimer' = "null"
        /\ autoShutdownTimer' = "null"
        /\ debounceTimers' = <<>>
        /\ idleTimers' = <<>>
        /\ nChanges' = 0
        /\ written' = NoEvent
        /\ idle' = IdleNone
        /\ burst' = BurstNone
        /\ jobs' = <<>>
        /\ UNCHANGED pageVars
        /\ cli' = NoCli
        /\ pdfResp' = NoPdfResp
        /\ extr' = NoExtr
        /\ UNCHANGED <<disk, writeFails, autoShutdownCallback, now, srcTime, pdfTime,
                       txtFrom>>

\* cleanup(...) of launcher/cleanup.js is called
Cleaned(n) == Min(n + 1, 2)

\* the folders cleanup() visits: the directories directly inside resumes/
\* and templates/
CleanupDirs == {getResumeDirByName(getAvailableResumes[i]) :
                   i \in 1..Len(getAvailableResumes)}

\* cleanup(toolsDir, resumesDir, templatesDir): node_modules is removed, and
\* resume.pdf and ats-extracted-text.txt in each folder it visits
cleanup(pdf, txt) ==
    [pdf |-> [d \in TreeDirs |-> IF d \in CleanupDirs THEN NoPdf ELSE pdf[d]],
     txt |-> [d \in TreeDirs |-> IF d \in CleanupDirs THEN NoPdf ELSE txt[d]],
     nodeModules |-> FALSE]

\* the files after a step of the launcher that calls cleanup() when runs holds
FilesAfter(runs) ==
    IF runs
    THEN \E c \in {cleanup(pdfTime, txtFrom)} :
            /\ pdfTime' = c.pdf
            /\ txtFrom' = c.txt
            /\ nodeModules' = c.nodeModules
    ELSE UNCHANGED <<pdfTime, txtFrom, nodeModules>>

\* the server is not touched; the files may be
NoServerButFiles ==
    UNCHANGED <<lrVars, docVars, srvVars, obsVars, now, srcTime, jobs, cli, pdfResp, extr,
                pageVars>>

\* main() up to the restart loop: checkForUpdates, checkPort,
\* installDependencies, then the first runServer()
LauncherStart(update, portInUse, depsOk) ==
    /\ lpc = "start"
    /\ updateAvailable' = update
    /\ IF portInUse THEN /\ lpc' = "exited"
                         /\ launcherExit' = 0
                         /\ UNCHANGED spawns
                         /\ NoServer
       ELSE IF ~depsOk THEN /\ lpc' = "exited"
                            /\ launcherExit' = 1
                            /\ UNCHANGED spawns
                            /\ NoServer
       ELSE /\ lpc' = "awaitServer"
            /\ spawns' = spawns + 1
            /\ UNCHANGED launcherExit
            /\ Spawned
    /\ nodeModules' = (nodeModules \/ (~portInUse /\ depsOk))
    /\ UNCHANGED <<shouldCleanup, lastCode, cleanups, restart>>

\* the child's 'close' event, with its exit code or with null when a signal
\* killed it: the promise of runServer() resolves
ChildClose ==
    /\ lpc = "awaitServer"
    /\ proc = "exited"
    /\ resolveCode(exitCode) = RESTART_CODE => spawns < MaxSpawns
    /\ lpc' = "resumed"
    /\ lastCode' = resolveCode(exitCode)
    /\ restart' = [NoRestart EXCEPT !.seen = TRUE]
    /\ UNCHANGED <<shouldCleanup, updateAvailable, spawns, cleanups, launcherExit,
                   nodeModules>>
    /\ NoServer

\* the child's 'error' event: node could not be spawned, so no server process
\* has run and nothing of it has been seen; the promise of runServer()
\* resolves with 1
ChildError ==
    /\ lpc = "awaitServer"
    /\ proc = "running"
    /\ ModuleAtStart
    /\ exitCode = NoCode /\ exitTimers = <<>> /\ closeCodes = <<>> /\ stops = {}
    /\ postPending = 0 /\ resp = NoResp
    /\ jobs = <<>> /\ pdfResp = NoPdfResp /\ extr = NoExtr
    /\ proc' = "failed"
    /\ lpc' = "resumed"
    /\ lastCode' = 1
    /\ restart' = [NoRestart EXCEPT !.seen = TRUE]
    /\ UNCHANGED <<shouldCleanup, updateAvailable, spawns, cleanups, launcherExit,
                   nodeModules>>
    /\ UNCHANGED <<exitCode, exitTimers, closeCodes, postPending, resp, stops>>
    /\ UNCHANGED <<lrVars, docVars, obsVars, pdfVars, pageVars>>

\* the loop body that treats the restart code like any other exit code
loopBody_NoRestart(code, sc) ==
    LET sc2 == IF code = FAST_CODE THEN FALSE ELSE sc
    IN  [respawn |-> FALSE, shouldCleanup |-> sc2, cleanup |-> sc2]

\* the loop body after `await runServer()`, and the cleanup that follows a break
loopBody(code, sc) ==
    LET sc2 == IF code = FAST_CODE THEN FALSE ELSE sc
    IN  IF code = RESTART_CODE
        THEN [respawn |-> TRUE, shouldCleanup |-> sc, cleanup |-> FALSE]
        ELSE [respawn |-> FALSE, shouldCleanup |-> sc2, cleanup |-> sc2]

\* main() goes on after `await runServer()`: re-spawn, or break, clean up
\* and wait 2 s
LoopContinues ==
    \E b \in {loopBody(lastCode, shouldCleanup)} :
        /\ lpc = "resumed"
        /\ shouldCleanup' = b.shouldCleanup
        /\ IF b.respawn
           THEN /\ lpc' = "awaitServer"
                /\ spawns' = spawns + 1
                /\ updateAvailable' = FALSE
                /\ restart' = [restart EXCEPT !.respawns = Min(@ + 1, 2)]
                /\ UNCHANGED <<cleanups, nodeModules>>
                /\ Spawned
           ELSE /\ lpc' = "awaitDelay"
                /\ cleanups' = IF b.cleanup THEN Cleaned(cleanups) ELSE cleanups
                /\ restart' = [restart EXCEPT !.cleaned = @ \/ (b.cleanup /\ restart.respawns = 0)]
                /\ UNCHANGED <<spawns, updateAvailable>>
                /\ FilesAfter(b.cleanup)
                /\ NoServerButFiles
        /\ UNCHANGED <<lastCode, launcherExit>>

\* the 2 s wait ends, main() returns and the launcher exits
DelayEnds ==
    /\ lpc = "awaitDelay"
    /\ lpc' = "exited"
    /\ launcherExit' = 0
    /\ UNCHANGED <<shouldCleanup, updateAvailable, lastCode, spawns, cleanups, restart,
                   nodeModules>>
    /\ NoServer

\* a signal handler that cleans up whatever shouldCleanup says
signalHandler_AlwaysCleans(sc, n) == Cleaned(n)

\* process.on('SIGINT' / 'SIGTERM'): if (shouldCleanup) cleanup(...)
signalHandler(sc, n) == IF sc THEN Cleaned(n) ELSE n

\* SIGINT or SIGTERM while main() awaits
LauncherSignal ==
    /\ lpc \in {"awaitServer", "awaitDelay"}
    /\ cleanups' = signalHandler(shouldCleanup, cleanups)
    /\ lpc' = "exited"
    /\ launcherExit' = 0
    /\ restart' = [restart EXCEPT !.signalled = TRUE]
    /\ UNCHANGED <<shouldCleanup, updateAvailable, lastCode, spawns>>
    /\ FilesAfter(signalHandler(shouldCleanup, 0) > 0)
    /\ NoServerButFiles

\* ------------------------------------------------------------------------
\* The live-reload module on its own, with a shutdown callback registered
\* (setAutoShutdownCallback(fn) at start-up)
\* ------------------------------------------------------------------------
LRInit ==
    /\ ModuleAtStart
    /\ ProcessAtStart
    /\ proc = "running"
    /\ currentResume = LocalResume
    /\ config = DefaultConfig
    /\ disk = DefaultConfig
    /\ watcher = initWatcher(LocalResume, DefaultConfig).watcher
    /\ autoShutdownCallback = TRUE
    /\ LauncherAtStart
    /\ PageAtLoad
    /\ RenderAtStart

\* the rest of the server does not move
ModuleOnly == UNCHANGED <<docVars, proc, exitCode, closeCodes, postPending, resp,
                          stops, launcherVars, pdfVars, pageVars>>

LRNext ==
    \/ \E c \in ClientIds : ModuleOnly /\ UNCHANGED exitTimers /\ SSEConnection(c)
    \/ \E c \in ClientIds : ModuleOnly /\ UNCHANGED exitTimers /\ SSEClose(c)
    \/ \E c \in ClientIds : ModuleOnly /\ UNCHANGED exitTimers /\ HeartbeatFails(c)
    \/ \E f \in Files : ModuleOnly /\ UNCHANGED exitTimers /\ WatcherChange(f)
    \/ \E i \in 1..MaxTimers : \E bad \in SUBSET clients :
          ModuleOnly /\ UNCHANGED exitTimers /\ DebounceFires(i, bad)
    \/ \E i \in 1..MaxTimers : ModuleOnly /\ UNCHANGED exitTimers /\ IdleFires(i)
    \/ \E d \in TickSteps : ModuleOnly /\ Tick(d)
    \/ ModuleOnly /\ UNCHANGED exitTimers /\ LRCleanup

LRSpec == LRInit /\ [][LRNext]_vars

\* ------------------------------------------------------------------------
\* Idle shutdown (live-reload.js with a callback registered)
\* ------------------------------------------------------------------------
IdleCase == idle.open /\ autoShutdownCallback

GraceKept ==
    /\ idle.invoked = 0 =>
           /\ autoShutdownTimer = "live"
           /\ idleTimers[Len(idleTimers)] <= AUTO_SHUTDOWN_DELAY_MS
    /\ idle.invoked > 0 => idle.since >= AUTO_SHUTDOWN_DELAY_MS

\* C1 as stated: once the registry went from one client to none through a
\* disconnect and nobody registered since, the callback has either been
\* invoked, and then only with the whole grace period elapsed, or the timer
\* that will invoke it is pending.
C1_AsStated == IdleCase => GraceKept

\* C1 amended: the same, as long as cleanup() has not run since the
\* disconnect (cleanup() clears the pending timer).
C1_CallbackAfterGrace == (IdleCase /\ ~idle.cleaned) => GraceKept

C1_Witness ==
    /\ IdleCase /\ ~idle.cleaned
    /\ idle.invoked = 1
    /\ idle.since = AUTO_SHUTDOWN_DELAY_MS

\* C3: a registration cancels the pending idle timer (no idle timer is
\* pending until the timer is armed again), and the callback is not invoked
\* between a registration and the next arming.
C3_RegistrationCancels ==
    /\ ~idle.armed => idleTimers = <<>>
    /\ idle.invoked > 0 => idle.armed

C3_Witness ==
    /\ idle.cancelled
    /\ clients # {}
    /\ idleTimers = <<>>
    /\ idle.invoked = 0

\* C4 as stated: at most one idle timer is pending, the callback runs at
\* most once in an idle episode, and the timer is armed only by an event that
\* has just emptied the registry.
C4_SingleTimerArmedOnDrop ==
    /\ Len(idleTimers) <= 1
    /\ idle.invoked <= 1
    /\ ~idle.late

\* ------------------------------------------------------------------------
\* Debounce and broadcast (live-reload.js)
\* ------------------------------------------------------------------------
OneReload ==
    IF debounceTimers # <<>>
    THEN Len(debounceTimers) = 1 /\ burst.reloads = 0
    ELSE burst.reloads = 1 /\ burst.sent = burst.file

\* C5 as stated: a burst of raw notifications has exactly one pending
\* debounce timer and no `reload` broadcast yet, or it has ended with exactly
\* one `reload` broadcast that carried the last changed file.
C5_AsStated == burst.n >= 1 => OneReload

\* C5 amended: the same, as long as cleanup() has not run since the burst
\* began (cleanup() clears the pending debounce timer).
C5_OneReloadPerBurst == (burst.n >= 1 /\ ~burst.cleaned) => OneReload

C5_Witness ==
    /\ burst.n = 2 /\ ~burst.cleaned
    /\ debounceTimers = <<>>
    /\ burst.reloads = 1
    /\ burst.sent = burst.file

\* C6: a broadcast reaches every registered client whose write does not
\* throw, and leaves in the registry exactly those clients.
C6_BroadcastResilience ==
    written.type \in {"reload", "switch"} =>
        /\ written.to = written.before \ written.failed
        /\ clients = written.before \ written.failed

C6_Witness ==
    /\ written.type \in {"reload", "switch"}
    /\ Cardinality(written.before) = 3
    /\ Cardinality(written.failed) = 1
    /\ Cardinality(written.to) = 2
    /\ Cardinality(clients) = 2

\* ------------------------------------------------------------------------
\* Idle shutdown of the assembled server
\* ------------------------------------------------------------------------

\* C2, as stated: once the last subscriber has disconnected, nobody has
\* registered since and the 5 s idle timeout has run, the server process is
\* no longer running
C2_AsStated ==
    (idle.open /\ idle.since >= AUTO_SHUTDOWN_DELAY_MS /\ idleTimers = <<>>)
        => proc # "running"

\* ------------------------------------------------------------------------
\* Switch requests
\* ------------------------------------------------------------------------
Known(n) == Includes(getAllResumesWithExternals(config), n)
WatcherOf(n) == [dir |-> getResumeDirByNameExtended(n), resume |-> n]

\* C7, as stated: a switch request that names an unknown document answers
\* 404 and leaves the current resume, the configuration in memory and on
\* disk, the watcher and the subscribers as they were, and writes no
\* `switch` event
C7_AsStated ==
    [][(resp'.op = "switch" /\ ~Known(resp'.name)) =>
          /\ resp'.status = 404
          /\ UNCHANGED <<currentResume, config, disk, watcher, clients>>
          /\ written'.type # "switch"]_vars

\* C8, as stated: a switch request that names a known document answers 200
\* with that name, makes it the current resume, has it in config.json as
\* lastResume, watches its tree, and writes one `switch` event to the
\* subscribers registered when it ran (those whose write throws excepted)
C8_AsStated ==
    [][(resp'.op = "switch" /\ Known(resp'.name)) =>
          /\ resp'.status = 200
          /\ resp'.current = resp'.name
          /\ currentResume' = resp'.name
          /\ disk'.lastResume = resp'.name
          /\ watcher' = WatcherOf(resp'.name)
          /\ written'.type = "switch"
          /\ written'.resume = resp'.name
          /\ written'.before = clients
          /\ written'.to = clients \ written'.failed]_vars

\* ------------------------------------------------------------------------
\* The watcher and the current resume
\* ------------------------------------------------------------------------

\* C9, as stated: while the server runs, the watcher watches the tree of
\* the current resume
C9_AsStated == proc = "running" => watcher = WatcherOf(currentResume)

\* ------------------------------------------------------------------------
\* The launcher on its own; the child is seen through its exit code only
\* ------------------------------------------------------------------------
LauncherInit ==
    /\ ModuleAtStart
    /\ ProcessAtStart
    /\ proc = "none"
    /\ currentResume = Null
    /\ config = DefaultConfig
    /\ disk \in InitialDisks
    /\ watcher = NoWatcher
    /\ autoShutdownCallback = FALSE
    /\ LauncherAtStart
    /\ PageAtLoad
    /\ now = 0
    /\ srcTime = [f \in TreeFiles |-> 0]
    /\ \E t \in {NoPdf, 0} :
          /\ pdfTime = [d \in TreeDirs |-> t]
          /\ txtFrom = [d \in TreeDirs |-> t]
    /\ jobs = <<>>
    /\ cli = NoCli
    /\ pdfResp = NoPdfResp
    /\ extr = NoExtr

LauncherNext ==
    \/ \E update, portInUse, depsOk \in BOOLEAN : LauncherStart(update, portInUse, depsOk)
    \/ ChildClose
    \/ ChildError
    \/ LoopContinues
    \/ DelayEnds
    \/ LauncherSignal
    \/ \E code \in {0, FAST_CODE} : ShutdownRequest(code)
    \/ \E gitOk \in BOOLEAN : SyncRequest(gitOk)
    \/ \E i \in 1..MaxTimers : ExitTimerFires(i)
    \/ \E code \in {0, 1} : gracefulShutdown(code)
    \/ ServerClosed
    \/ ServerError
    \/ ServerKilled
    \/ \E d \in TickSteps : InServer /\ Tick(d)

LauncherSpec == LauncherInit /\ [][LauncherNext]_vars

\* C10: once main() has gone on after a child exit with code 3, the server
\* has been spawned again exactly once and cleanup() has not been called in
\* between; until main() goes on, neither has happened
C10_RestartOnSync ==
    (restart.seen /\ lastCode = RESTART_CODE) =>
        /\ ~restart.cleaned
        /\ restart.respawns = IF lpc = "resumed" THEN 0 ELSE 1

C10_Witness ==
    /\ restart.seen
    /\ lastCode = RESTART_CODE
    /\ lpc = "awaitServer"
    /\ restart.respawns = 1
    /\ spawns = 2

\* C11, as stated: once main() has left the loop after a child exit with
\* code 0, the server has not been spawned again and cleanup() has been
\* called exactly once, also when the launcher has exited
C11_AsStated ==
    (restart.seen /\ exitCode = 0 /\ lastCode = 0 /\ lpc \in {"awaitDelay", "exited"}) =>
        /\ restart.respawns = 0
        /\ cleanups = 1

C13_AsStated ==
    (restart.seen /\ exitCode = 1 /\ lastCode = 1 /\ lpc \in {"awaitDelay", "exited"}) =>
        /\ restart.respawns = 0
        /\ cleanups = 0
        /\ lpc = "exited" => launcherExit > 0

\* ------------------------------------------------------------------------
\* Rendering: server/handlers/pdf.js, server/handlers/ats.js, cli/pdf.js
\* ------------------------------------------------------------------------
\* nothing but the files, the render children and the answers moves
RenderOnly == UNCHANGED <<lrVars, config, disk, writeFails, srvVars, launcherVars, obsVars,
                          pageVars>>

Job(kind, name, dir) == [kind |-> kind, name |-> name, dir |-> dir]

\* servePdf(res, pdfPath, currentResume)
servePdf(dir, name, cached) ==
    [op |-> "pdf", status |-> 200, cached |-> cached, dir |-> dir, name |-> name,
     body |-> "pdf"]
PdfError(op, dir, name) ==
    [op |-> op, status |-> 500, cached |-> FALSE, dir |-> dir, name |-> name,
     body |-> "failure"]

\* no cli/ats.js run ends in this step
NoExtraction == extr' = NoExtr /\ UNCHANGED txtFrom

\* a handler that joins the render of the same tree that is under way
PdfRequest_Deduplicated ==
    \E p \in {Prelude} :
        /\ proc = "running"
        /\ currentResume' = p.current
        /\ IF ~needsPdfRegeneration(pdfTime[p.dir], srcTime) /\ pdfTime[p.dir] # NoPdf
           THEN /\ pdfResp' = servePdf(p.dir, p.current, TRUE)
                /\ jobs' = jobs
           ELSE IF \E i \in 1..Len(jobs) : jobs[i].dir = p.dir /\ jobs[i].kind = "pdf"
           THEN /\ jobs' = jobs
                /\ pdfResp' = NoPdfResp
           ELSE /\ Len(jobs) < MaxJobs
                /\ jobs' = Append(jobs, Job("pdf", p.current, p.dir))
                /\ pdfResp' = NoPdfResp
        /\ cli' = NoCli
        /\ UNCHANGED <<now, srcTime, pdfTime>>
        /\ NoExtraction
        /\ RenderOnly

\* GET /api/pdf -> handlePdfGeneration(res, resumeDir, currentResume), up to
\* its await: the cached file is served, or cli/pdf.js is spawned
PdfRequest ==
    \E p \in {Prelude} :
        /\ proc = "running"
        /\ currentResume' = p.current
        /\ IF ~needsPdfRegeneration(pdfTime[p.dir], srcTime) /\ pdfTime[p.dir] # NoPdf
           THEN /\ pdfResp' = servePdf(p.dir, p.current, TRUE)
                /\ jobs' = jobs
           ELSE /\ Len(jobs) < MaxJobs
                /\ jobs' = Append(jobs, Job("pdf", p.current, p.dir))
                /\ pdfResp' = NoPdfResp
        /\ cli' = NoCli
        /\ UNCHANGED <<now, srcTime, pdfTime>>
        /\ NoExtraction
        /\ RenderOnly

\* GET /api/ats-test -> handleAtsTest(res, resumeDir, currentResume), up to
\* its first await: cli/pdf.js is spawned when the PDF is missing or stale,
\* cli/ats.js otherwise
AtsRequest ==
    \E p \in {Prelude} :
        /\ proc = "running"
        /\ currentResume' = p.current
        /\ Len(jobs) < MaxJobs
        /\ jobs' = Append(jobs, Job(IF needsPdfRegeneration(pdfTime[p.dir], srcTime)
                                    THEN "ats" ELSE "extract", p.current, p.dir))
        /\ pdfResp' = NoPdfResp
        /\ cli' = NoCli
        /\ UNCHANGED <<now, srcTime, pdfTime>>
        /\ NoExtraction
        /\ RenderOnly

\* the cli/pdf.js child of generatePdfAsync ends (child.on('close', code)), and
\* the handler that awaited it goes on: handlePdfGeneration answers,
\* handleAtsTest spawns cli/ats.js or answers 500
RenderCloses(i, ok) ==
    /\ i \in 1..Len(jobs)
    /\ jobs[i].kind \in {"pdf", "ats"}
    /\ \E j \in {jobs[i]} : \E r \in {cliMain(resumeFlag(j.name), ok)} :
          /\ pdfTime' = IF r.wrote THEN [pdfTime EXCEPT ![r.dir] = now] ELSE pdfTime
          /\ cli' = [by |-> j.kind, name |-> j.name, dir |-> r.dir, code |-> r.code,
                     wrote |-> r.wrote, launched |-> r.launched, pdfDir |-> j.dir]
          /\ IF j.kind = "pdf"
             THEN /\ jobs' = RemoveAt(jobs, i)
                  /\ pdfResp' = IF r.code = 0 /\ pdfTime'[j.dir] # NoPdf
                                THEN servePdf(j.dir, j.name, FALSE)
                                ELSE PdfError("pdf", j.dir, j.name)
             ELSE IF r.code = 0
                  THEN /\ jobs' = [jobs EXCEPT ![i] = Job("extract", j.name, j.dir)]
                       /\ pdfResp' = NoPdfResp
                  ELSE /\ jobs' = RemoveAt(jobs, i)
                       /\ pdfResp' = PdfError("ats", j.dir, j.name)
    /\ UNCHANGED <<now, srcTime, currentResume>>
    /\ NoExtraction
    /\ RenderOnly

\* child.on('error'): the cli/pdf.js child could not be started
RenderSpawnError(i) ==
    /\ i \in 1..Len(jobs)
    /\ jobs[i].kind \in {"pdf", "ats"}
    /\ jobs' = RemoveAt(jobs, i)
    /\ pdfResp' = PdfError(jobs[i].kind, jobs[i].dir, jobs[i].name)
    /\ cli' = NoCli
    /\ UNCHANGED <<now, srcTime, pdfTime, currentResume>>
    /\ NoExtraction
    /\ RenderOnly

\* the promise of runAtsTestAsync settles and handleAtsTest goes on: 200 with
\* the text it resolved with, 500 from the catch block had it rejected
AtsAnswer(j, r) ==
    IF r.settled = "resolve"
    THEN [op |-> "ats", status |-> 200, cached |-> FALSE, dir |-> j.dir, name |-> j.name,
          body |-> r.text]
    ELSE PdfError("ats", j.dir, j.name)

\* the cli/ats.js child of runAtsTestAsync ends (child.on('close'))
ExtractCloses(i, parses, onStderr) ==
    /\ i \in 1..Len(jobs)
    /\ jobs[i].kind = "extract"
    /\ \E j \in {jobs[i]} : \E r \in {atsMain(resumeFlag(j.name), pdfTime, parses, onStderr)} :
          /\ txtFrom' = IF r.wrote THEN [txtFrom EXCEPT ![r.dir] = pdfTime[r.dir]]
                        ELSE txtFrom
          /\ extr' = [name |-> j.name, dir |-> r.dir, why |-> r.why, wrote |-> r.wrote]
          /\ pdfResp' = AtsAnswer(j, runAtsTestAsync(TRUE, r.stdout, r.stderr))
    /\ jobs' = RemoveAt(jobs, i)
    /\ cli' = NoCli
    /\ UNCHANGED <<now, srcTime, pdfTime, currentResume>>
    /\ RenderOnly

\* child.on('error'): the cli/ats.js child could not be started
ExtractSpawnError(i) ==
    /\ i \in 1..Len(jobs)
    /\ jobs[i].kind = "extract"
    /\ extr' = [name |-> jobs[i].name, dir |-> Null, why |-> "spawn", wrote |-> FALSE]
    /\ pdfResp' = AtsAnswer(jobs[i], runAtsTestAsync(FALSE, "", ""))
    /\ jobs' = RemoveAt(jobs, i)
    /\ cli' = NoCli
    /\ UNCHANGED <<now, srcTime, pdfTime, currentResume, txtFrom>>
    /\ RenderOnly

\* `node cli/pdf.js <argv>` run from a terminal
CliPdf(argv, ok) ==
    \E r \in {cliMain(argv, ok)} :
        /\ pdfTime' = IF r.wrote THEN [pdfTime EXCEPT ![r.dir] = now] ELSE pdfTime
        /\ cli' = [by |-> "shell", name |-> sharedParseResumeArg(argv), dir |-> r.dir,
                   code |-> r.code, wrote |-> r.wrote, launched |-> r.launched,
                   pdfDir |-> Null]
        /\ pdfResp' = NoPdfResp
        /\ UNCHANGED <<now, srcTime, jobs, currentResume>>
        /\ NoExtraction
        /\ RenderOnly

\* the user saves a source file of the active tree
Touch(f) ==
    /\ srcTime[f] < now
    /\ srcTime' = [srcTime EXCEPT ![f] = now]
    /\ cli' = NoCli
    /\ pdfResp' = NoPdfResp
    /\ UNCHANGED <<now, pdfTime, jobs, currentResume>>
    /\ NoExtraction
    /\ RenderOnly

\* the file system clock moves on
TimePasses ==
    /\ now < MaxTime
    /\ now' = now + 1
    /\ cli' = NoCli
    /\ pdfResp' = NoPdfResp
    /\ UNCHANGED <<srcTime, pdfTime, jobs, currentResume>>
    /\ NoExtraction
    /\ RenderOnly

CliArgs == {NoFlag} \cup {resumeFlag(n) : n \in RequestNames}

\* a config.json that lists the external path and names the external resume
\* as the last one used
ExternalConfig ==
    [visibleResumes |-> NoFilter, lastResume |-> ExternalResume,
     externalPaths |-> <<ExternalPath>>]

\* the server as index.js starts it, with --resume=<a local or template
\* resume> or without the flag; the trees hold no resume.pdf, or each holds
\* the one of an earlier run
ExternalAtStart ==
    /\ \E arg \in {Null, LocalResume, TemplateResume} :
          \E s \in {Started(arg, ExternalConfig)} :
              /\ disk = ExternalConfig
              /\ config = s.config
              /\ currentResume = s.start.current
              /\ watcher = s.start.watcher
    /\ ModuleAtStart
    /\ ProcessAtStart
    /\ proc = "running"
    /\ autoShutdownCallback = FALSE
    /\ LauncherAtStart
    /\ PageAtLoad

PdfInit ==
    /\ ExternalAtStart
    /\ now = 0
    /\ srcTime = [f \in TreeFiles |-> 0]
    /\ pdfTime \in {[d \in TreeDirs |-> NoPdf], [d \in TreeDirs |-> 0]}
    /\ jobs = <<>>
    /\ cli = NoCli
    /\ pdfResp = NoPdfResp
    /\ txtFrom = [d \in TreeDirs |-> NoPdf]
    /\ extr = NoExtr

PdfNext ==
    \/ PdfRequest
    \/ AtsRequest
    \/ \E i \in 1..MaxJobs, ok \in BOOLEAN : RenderCloses(i, ok)
    \/ \E i \in 1..MaxJobs : RenderSpawnError(i)
    \/ \E i \in 1..MaxJobs, parses, onStderr \in BOOLEAN : ExtractCloses(i, parses, onStderr)
    \/ \E i \in 1..MaxJobs : ExtractSpawnError(i)
    \/ \E argv \in CliArgs, ok \in BOOLEAN : CliPdf(argv, ok)
    \/ \E f \in TreeFiles : Touch(f)
    \/ TimePasses

PdfSpec == PdfInit /\ [][PdfNext]_vars

\* the staleness check on its own: the handlers that run it, started on
\* every combination of timestamps
StalenessInit ==
    /\ ExternalAtStart
    /\ now = MaxTime
    /\ srcTime \in [TreeFiles -> Times]
    /\ pdfTime \in [TreeDirs -> {NoPdf} \cup Times]
    /\ jobs = <<>>
    /\ cli = NoCli
    /\ pdfResp = NoPdfResp
    /\ txtFrom = [d \in TreeDirs |-> NoPdf]
    /\ extr = NoExtr

StalenessNext ==
    \/ PdfRequest
    \/ AtsRequest

StalenessSpec == StalenessInit /\ [][StalenessNext]_vars

\* extraction on demand on its own: /api/ats-test requests and their
\* children, started on every combination of PDFs present and absent
AtsInit ==
    /\ ExternalAtStart
    /\ now = MaxTime
    /\ srcTime \in [TreeFiles -> {0, MaxTime}]
    /\ pdfTime \in [TreeDirs -> {NoPdf, 0}]
    /\ jobs = <<>>
    /\ cli = NoCli
    /\ pdfResp = NoPdfResp
    /\ txtFrom = [d \in TreeDirs |-> NoPdf]
    /\ extr = NoExtr

AtsNext ==
    \/ AtsRequest
    \/ \E i \in 1..MaxJobs, ok \in BOOLEAN : RenderCloses(i, ok)
    \/ \E i \in 1..MaxJobs : RenderSpawnError(i)
    \/ \E i \in 1..MaxJobs, parses, onStderr \in BOOLEAN : ExtractCloses(i, parses, onStderr)
    \/ \E i \in 1..MaxJobs : ExtractSpawnError(i)

AtsSpec == AtsInit /\ [][AtsNext]_vars

\* the tree the server reads: the staleness check and the serve step
ActiveDir == Prelude.dir
ActivePdf == pdfTime[ActiveDir]

\* the style sheets directly inside css/, and the watched sources of a tree
DirectCss == {"css/style.css"}
WatchedFiles == {f \in TreeFiles : watchPatterns(f)}

\* a request handler ran the staleness check in this step
CheckedNow == Len(jobs') > Len(jobs) \/ pdfResp'.cached

\* stale, as the contract words it
Stale(pdf, mtime) ==
    \/ pdf = NoPdf
    \/ mtime["resume.html"] > pdf
    \/ \E f \in DirectCss : mtime[f] > pdf

\* C14: needsPdfRegeneration is true when resume.pdf is absent; otherwise it
\* is true exactly when resume.html or a .css file directly inside css/ is
\* strictly newer than the PDF, so a source as old as the PDF is fresh; and a
\* step that runs the check writes no file
C14_StalenessCheck ==
    [][/\ \A d \in TreeDirs :
             /\ needsPdfRegeneration(pdfTime[d], srcTime) = Stale(pdfTime[d], srcTime)
             /\ needsPdfRegeneration(pdfTime'[d], srcTime')
                = Stale(pdfTime'[d], srcTime')
       /\ CheckedNow => UNCHANGED <<srcTime, pdfTime>>]_vars

\* a PDF was served from the cache although a checked source carries the
\* very timestamp of the PDF, which is not the oldest one
C14_Witness ==
    /\ pdfResp.op = "pdf"
    /\ pdfResp.cached
    /\ ActivePdf > 0
    /\ \E f \in DirectCss \cup {"resume.html"} : srcTime[f] = ActivePdf

\* a render wrote the PDF of the active tree in this step
RenderedActive == cli'.wrote /\ cli'.dir = ActiveDir'

\* C15: directly after a successful render the PDF of the active tree is
\* fresh, and once a watched source of the tree is modified after that it is
\* stale
C15_AsStated ==
    [][/\ RenderedActive => ~needsPdfRegeneration(ActivePdf, srcTime)'
       /\ (~needsPdfRegeneration(ActivePdf, srcTime)
           /\ \E f \in WatchedFiles : srcTime'[f] # srcTime[f])
          => needsPdfRegeneration(ActivePdf, srcTime)']_vars

\* the PDF of the active tree is not older than any watched source
ValidRender == ActivePdf # NoPdf /\ \A f \in WatchedFiles : ActivePdf >= srcTime[f]

\* C16: GET /api/pdf serves the cached PDF exactly when the PDF is not older
\* than any watched source of the active tree, and renders otherwise
C16_AsStated ==
    [][/\ (pdfResp'.op = "pdf" /\ pdfResp'.cached) => ValidRender
       /\ (Len(jobs') > Len(jobs) /\ jobs'[Len(jobs')].kind = "pdf") => ~ValidRender]_vars

\* C17: when the render child exits with 0 and the resume.pdf the handler
\* reads is absent, the handler answers 500 and goes no further
C17_AsStated ==
    [][(cli'.by \in {"pdf", "ats"} /\ cli'.code = 0 /\ pdfTime'[cli'.pdfDir] = NoPdf)
       => (pdfResp'.status = 500 /\ Len(jobs') < Len(jobs))]_vars

\* a name that is given and names no resume the server knows
Unresolved(name) == name # Null /\ ~Includes(getAllResumesWithExternals(config), name)

\* C18: a render invoked for a name that resolves to no resume tree reports
\* an error and launches no process
C18_AsStated ==
    (cli.by # "none" /\ Unresolved(cli.name)) => (cli.code # 0 /\ ~cli.launched)

\* C19: `node cli/pdf.js --resume=<name>` with a name that is no resume exits
\* with code 1 and writes no resume.pdf
C19_AsStated ==
    [][(cli'.by = "shell" /\ Unresolved(cli'.name))
       => (cli'.code = 1 /\ pdfTime' = pdfTime)]_vars

\* C20: a render on demand that ends with exit code 0 has written the
\* resume.pdf of the tree of the document it was asked for, the tree the
\* server reads, and of no other tree
C20_AsStated ==
    [][(cli'.by = "pdf" /\ cli'.code = 0)
       => /\ pdfTime'[getResumeDirByNameExtended(cli'.name)] = now
          /\ cli'.pdfDir = getResumeDirByNameExtended(cli'.name)
          /\ \A d \in TreeDirs \ {getResumeDirByNameExtended(cli'.name)} :
                pdfTime'[d] = pdfTime[d]]_vars

KnownDirs ==
    LET all == getAllResumesWithExternals(loadConfig(disk))
    IN  {getResumeDirByNameExtended(all[i]) : i \in 1..Len(all)}

\* C22: a step in which cleanup() runs leaves no resume.pdf and no
\* ats-extracted-text.txt in the tree of any known document, external ones
\* included, and no node_modules
C22_AsStated ==
    [][cleanups' # cleanups
       => /\ \A d \in KnownDirs : pdfTime'[d] = NoPdf /\ txtFrom'[d] = NoPdf
          /\ ~nodeModules']_vars

\* the server process has ended, and not through an error of the server
\* (exit code 1) or a signal without a handler (no exit code)
StoppedByRequest == proc = "exited" /\ stops # {} /\ exitCode \notin {1, NoCode}

C24_AsStated ==
    (proc = "exited" /\ Includes(closeCodes, 1) /\ exitCode # NoCode) => exitCode # 0

\* C25: the `connected` event is written to the subscriber that has just
\* connected and to nobody else, every new subscriber is written one, and
\* any other event reaches a subscriber only after its `connected` event
C25_ConnectedFirst ==
    [][/\ written'.type = "connected"
            => \E c \in ClientIds : /\ written'.to = {c}
                                    /\ conn[c] = "none" /\ conn'[c] = "open"
       /\ \A c \in ClientIds :
            (conn[c] = "none" /\ conn'[c] # "none")
                => written'.type = "connected" /\ written'.to = {c}
       /\ \A c \in ClientIds :
            (c \in written'.to /\ written'.type # "connected") => conn[c] # "none"]_vars

\* the second subscriber connects while the first one is registered
C25_Witness ==
    written.type = "connected" /\ written.to = {2} /\ clients = {1, 2}

MAX_RECONNECT_ATTEMPTS == 10

\* the server and the launcher are other processes
PageOnly == UNCHANGED <<lrVars, docVars, srvVars, launcherVars, obsVars, pdfVars>>

\* the page is not loaded anew
SamePage == UNCHANGED pageLoads

\* initLiveReload(): return when stopping, else close the old EventSource
\* and construct a new one
initLiveReload ==
    IF liveReloadStopping
    THEN started' = FALSE /\ UNCHANGED liveReloadEventSource
    ELSE started' = TRUE /\ liveReloadEventSource' = "connecting"

\* a timeout set by onerror runs initLiveReload; a timeout of the same delay
\* that was set before it (the auto-dismiss of the `connected` banner) has
\* run by then
RetryFires ==
    /\ SamePage
    /\ retryTimers > 0
    /\ ~dismissPending
    /\ retryTimers' = retryTimers - 1
    /\ initLiveReload
    /\ UNCHANGED <<liveReloadReconnectAttempts, liveReloadStopping, liveReloadStatus,
                   reloadNotification, dismissPending, fails>>
    /\ PageOnly

\* stopLiveReload(): set the flag, close and drop the EventSource, hide both
\* banners
stopLiveReload ==
    /\ SamePage
    /\ liveReloadStopping' = TRUE
    /\ liveReloadEventSource' = "null"
    /\ liveReloadStatus' = "hidden"
    /\ reloadNotification' = FALSE
    /\ started' = FALSE
    /\ UNCHANGED <<liveReloadReconnectAttempts, retryTimers, dismissPending, fails>>
    /\ PageOnly

\* the `connected` listener
onConnected ==
    /\ SamePage
    /\ liveReloadEventSource = "connecting"
    /\ liveReloadEventSource' = "open"
    /\ liveReloadReconnectAttempts' = 0
    /\ liveReloadStatus' = "info"
    /\ dismissPending' = TRUE
    /\ fails' = 0
    /\ started' = FALSE
    /\ UNCHANGED <<liveReloadStopping, retryTimers, reloadNotification>>
    /\ PageOnly

\* the `reload` listener: reloadResumeFrame() and its notification
onReload ==
    /\ SamePage
    /\ liveReloadEventSource = "open"
    /\ reloadNotification' = TRUE
    /\ started' = FALSE
    /\ UNCHANGED <<liveReloadEventSource, liveReloadReconnectAttempts, liveReloadStopping,
                   retryTimers, liveReloadStatus, dismissPending, fails>>
    /\ PageOnly

\* the `switch` listener: location.reload() loads the page anew, which
\* drops its timers and runs its scripts from the start
onSwitch ==
    /\ liveReloadEventSource = "open"
    /\ pageLoads < MaxLoads
    /\ pageLoads' = pageLoads + 1
    /\ liveReloadEventSource' = "connecting"
    /\ liveReloadReconnectAttempts' = 0
    /\ liveReloadStopping' = FALSE
    /\ retryTimers' = 0
    /\ liveReloadStatus' = "hidden"
    /\ reloadNotification' = FALSE
    /\ dismissPending' = FALSE
    /\ fails' = 0
    /\ started' = TRUE
    /\ PageOnly

\* an error handler that retries without a limit
onerror_NoLimit ==
    /\ SamePage
    /\ liveReloadEventSource \in {"connecting", "open"}
    /\ ~liveReloadStopping
    /\ liveReloadEventSource' = "closed"
    /\ fails' = Min(fails + 1, MaxFails)
    /\ started' = FALSE
    /\ liveReloadReconnectAttempts' = Min(liveReloadReconnectAttempts + 1,
                                          MAX_RECONNECT_ATTEMPTS)
    /\ retryTimers' = retryTimers + 1
    /\ liveReloadStatus' = "warning"
    /\ UNCHANGED <<liveReloadStopping, reloadNotification, dismissPending>>
    /\ PageOnly

\* EventSource.onerror: nothing when stopping; else the warning banner, close
\* the stream, and either count the attempt and schedule initLiveReload or
\* show the error banner
onerror ==
    /\ SamePage
    /\ liveReloadEventSource \in {"connecting", "open"}
    /\ IF liveReloadStopping
       THEN /\ started' = FALSE
            /\ UNCHANGED <<liveReloadEventSource, liveReloadReconnectAttempts, retryTimers,
                           liveReloadStatus, fails>>
       ELSE /\ liveReloadEventSource' = "closed"
            /\ fails' = Min(fails + 1, MaxFails)
            /\ started' = FALSE
            /\ IF liveReloadReconnectAttempts < MAX_RECONNECT_ATTEMPTS
               THEN /\ liveReloadReconnectAttempts' = liveReloadReconnectAttempts + 1
                    /\ retryTimers' = retryTimers + 1
                    /\ liveReloadStatus' = "warning"
               ELSE /\ liveReloadStatus' = "error"
                    /\ UNCHANGED <<liveReloadReconnectAttempts, retryTimers>>
    /\ UNCHANGED <<liveReloadStopping, reloadNotification, dismissPending>>
    /\ PageOnly

\* showBanner(id, {autoDismiss: true}): the timeout runs hideBanner(id),
\* which removes whatever banner carries the id by then
StatusDismissed ==
    /\ SamePage
    /\ dismissPending
    /\ dismissPending' = FALSE
    /\ liveReloadStatus' = "hidden"
    /\ started' = FALSE
    /\ UNCHANGED <<liveReloadEventSource, liveReloadReconnectAttempts, liveReloadStopping,
                   retryTimers, reloadNotification, fails>>
    /\ PageOnly

ReloadDismissed ==
    /\ SamePage
    /\ reloadNotification
    /\ reloadNotification' = FALSE
    /\ started' = FALSE
    /\ UNCHANGED <<liveReloadEventSource, liveReloadReconnectAttempts, liveReloadStopping,
                   retryTimers, liveReloadStatus, dismissPending, fails>>
    /\ PageOnly

\* the page on its own, next to a server that does not move
PageInit == LRInit

PageNext ==
    \/ RetryFires
    \/ stopLiveReload
    \/ onConnected
    \/ onReload
    \/ onSwitch
    \/ onerror
    \/ StatusDismissed
    \/ ReloadDismissed

PageSpec == PageInit /\ [][PageNext]_vars

\* a stream failure is handled in this step
Failure == fails' = fails + 1

\* C27 as stated: the tenth consecutive stream failure, and every later one,
\* schedules no reconnect and shows the permanent-failure banner
C27_AsStated ==
    [][(Failure /\ fails' >= MAX_RECONNECT_ATTEMPTS)
          => retryTimers' = retryTimers /\ liveReloadStatus' = "error"]_vars

\* C27: each of the first MAX_RECONNECT_ATTEMPTS consecutive stream failures
\* schedules one reconnect, the next failure schedules none and shows the
\* permanent-failure banner; a `connected` event resets the attempt counter;
\* once stopLiveReload has run no EventSource is constructed, a scheduled
\* retry included
C27_BoundedReconnect ==
    [][/\ Failure =>
            IF fails' <= MAX_RECONNECT_ATTEMPTS
            THEN retryTimers' = retryTimers + 1 /\ liveReloadStatus' = "warning"
            ELSE retryTimers' = retryTimers /\ liveReloadStatus' = "error"
       /\ liveReloadReconnectAttempts' = Min(fails', MAX_RECONNECT_ATTEMPTS)
       /\ retryTimers' <= 1
       /\ (liveReloadEventSource = "connecting" /\ liveReloadEventSource' = "open")
            => liveReloadReconnectAttempts' = 0
       /\ liveReloadStopping
            => /\ liveReloadStopping'
               /\ ~started'
               /\ liveReloadEventSource' = "null"]_vars

\* the stream failed once more than MAX_RECONNECT_ATTEMPTS times in a row
C27_Witness ==
    /\ fails = MAX_RECONNECT_ATTEMPTS + 1
    /\ liveReloadStatus = "error"
    /\ retryTimers = 0
    /\ liveReloadEventSource = "closed"

\* the names a sequence holds
Names(q) == {q[i] : i \in 1..Len(q)}

KnownAfter(data) ==
    Names(getAllResumesWithExternals(
              IF data.externalPaths.isArray
              THEN [config EXCEPT !.externalPaths = data.externalPaths.list]
              ELSE config))

\* C29: a POST /api/config whose visibleResumes list names no known resume
\* is answered 400, a body that is not JSON is answered 400, and after an
\* update that is answered 200 the stored filter, in memory and in
\* config.json, names known resumes only
C29_AsStated ==
    [][\A data \in PostBodies, ok \in BOOLEAN :
          PostConfigBody(data, ok)
             => /\ ~data.json => resp'.status = 400
                /\ (data.json /\ data.visibleResumes.isArray
                      /\ Names(data.visibleResumes.list) \cap KnownAfter(data) = {})
                     => resp'.status = 400
                /\ resp'.status = 200
                     => /\ Names(config'.visibleResumes.list)
                              \subseteq Names(getAllResumesWithExternals(config'))
                        /\ Names(disk'.visibleResumes.list)
                              \subseteq Names(getAllResumesWithExternals(disk'))]_vars

\* the children handleAtsTest awaits: cli/pdf.js, cli/ats.js
Awaits(js, kind) == \E i \in 1..Len(js) : js[i].kind = kind

\* the cli/pdf.js child of an /api/ats-test request ended in this step and
\* the render failed: a non-zero exit code, or no resume.pdf where the
\* server reads it
AtsRenderFailed ==
    cli'.by = "ats" /\ (cli'.code # 0 \/ pdfTime'[cli'.pdfDir] = NoPdf)

\* the steps of one /api/ats-test request follow one another
AtsStepsInOrder ==
    /\ (Awaits(jobs', "ats") /\ ~Awaits(jobs, "ats"))
         => \E d \in TreeDirs : /\ jobs'[Len(jobs')].dir = d
                                /\ needsPdfRegeneration(pdfTime[d], srcTime)
    /\ (Awaits(jobs', "extract") /\ ~Awaits(jobs, "extract"))
         => \/ /\ ~Awaits(jobs, "ats")
               /\ \E d \in TreeDirs : /\ jobs'[Len(jobs')].dir = d
                                      /\ ~needsPdfRegeneration(pdfTime[d], srcTime)
            \/ Awaits(jobs, "ats") /\ cli'.by = "ats" /\ cli'.code = 0
    /\ (pdfResp'.op = "ats" /\ pdfResp'.status = 200)
         => Awaits(jobs, "extract") /\ extr'.why # "none"

\* C30: in one extraction-on-demand request the staleness check precedes
\* the render, the render ends successfully before the extraction starts and
\* the extraction ends before the answer; after a failed render no
\* extraction is started and the answer is a 500
C30_AsStated ==
    [][/\ AtsStepsInOrder
       /\ AtsRenderFailed => ~Awaits(jobs', "extract") /\ pdfResp'.status = 500]_vars

\* C31: a request for a document whose PDF is missing or stale spawns a
\* render of its own, whatever renders are in flight: in every state in
\* which the active document is stale, each of the two request handlers
\* takes a step that adds one cli/pdf.js child for the active tree
C31_NoDeduplication ==
    \A d \in TreeDirs :
        (/\ proc = "running"
         /\ Prelude.dir = d
         /\ needsPdfRegeneration(pdfTime[d], srcTime)
         /\ Len(jobs) < MaxJobs)
           => /\ ENABLED (PdfRequest /\ jobs' = Append(jobs, Job("pdf", Prelude.current, d)))
              /\ ENABLED (AtsRequest /\ jobs' = Append(jobs, Job("ats", Prelude.current, d)))

\* two renders of one stale document are in flight
C31_Witness ==
    /\ Len(jobs) = 2
    /\ jobs[1].dir = jobs[2].dir
    /\ jobs[1].kind = "pdf" /\ jobs[2].kind \in {"pdf", "ats"}
    /\ needsPdfRegeneration(pdfTime[jobs[1].dir], srcTime)

\* C32: while an auto-shutdown timeout is pending no response is registered
C32_IdleTimerOnlyWhenEmpty == idleTimers # <<>> => clients = {}

\* the timeout is pending after the last of two subscribers has closed
C32_Witness ==
    /\ idleTimers # <<>>
    /\ clients = {}
    /\ conn[1] = "closed" /\ conn[2] = "closed"

\* C33: a step, other than cleanup(), that removes the last registered
\* response leaves an auto-shutdown timeout pending
C33_AsStated ==
    [][(clients # {} /\ clients' = {} /\ ~LRCleanup)
          => idleTimers' # <<>> /\ autoShutdownTimer' = "live"]_vars

\* ------------------------------------------------------------------------
\* Switching while the watched tree changes: /api/switch, subscribers, the
\* watcher's change events and the debounce timeouts, with time passing
\* ------------------------------------------------------------------------
SwitchInit == Init

SwitchNext ==
    \/ \E n \in RequestNames, ok \in BOOLEAN : \E bad \in SUBSET clients :
          SwitchRequest(n, ok, bad)
    \/ \E c \in 1..MaxSubscribers : EventsRequest(c)
    \/ \E f \in Files : InServer /\ UNCHANGED exitTimers /\ WatcherChange(f)
    \/ \E i \in 1..MaxTimers : \E bad \in SUBSET clients :
          InServer /\ UNCHANGED exitTimers /\ DebounceFires(i, bad)
    \/ \E d \in TickSteps : InServer /\ Tick(d)

SwitchSpec == SwitchInit /\ [][SwitchNext]_vars

\* C34: every `reload` event names the document that is active when it is
\* broadcast, never one that was active before a switch
C34_AsStated ==
    [][written'.type = "reload" => written'.resume = currentResume']_vars

\* C35: once cleanup() has run, and until somebody connects again, the
\* module holds no subscriber, no watcher and no timer: no debounce timeout,
\* no auto-shutdown timeout and no heartbeat interval is pending
C35_AsStated ==
    idle.cleaned
        => /\ clients = {}
           /\ watcher = NoWatcher
           /\ debounceTimers = <<>>
           /\ idleTimers = <<>>
           /\ heartbeat = {}

\* C36: a switch request whose saveConfig({lastResume}) cannot write the
\* file leaves state.config as it was before the call, and a configuration
\* that agreed with config.json before the request agrees with it afterwards
C36_AsStated ==
    [][(resp'.op = "switch" /\ writeFails' = writeFails + 1)
          => /\ config' = config
             /\ config = disk => config' = disk']_vars

\* C37: a POST /api/config that is answered 400 or 500 leaves the external
\* paths and the visibility filter of state.config and the current resume
\* as they were
C37_AsStated ==
    [][(resp'.op = "config" /\ resp'.status \in {400, 500})
          => /\ config'.externalPaths = config.externalPaths
             /\ config'.visibleResumes = config.visibleResumes
             /\ currentResume' = currentResume]_vars

\* C38: in one run of the launcher cleanup() is called at most once,
\* whatever the order of the child's exit and the signals
C38_AsStated == cleanups <= 1

\* C39: when main() goes on after runServer() has resolved for a child that
\* ended without an exit code, the code it goes on with is 0, the server is
\* not spawned again and cleanup() runs; when it goes on after a child that
\* could not be spawned, the code it goes on with is 1
C39_NullCodeIsZero ==
    [][/\ (lpc = "resumed" /\ proc = "exited" /\ exitCode = NoCode)
            => /\ lastCode = 0
               /\ lpc' = "awaitDelay"
               /\ spawns' = spawns
               /\ cleanups' = cleanups + 1
               /\ nodeModules' = FALSE
       /\ (lpc = "resumed" /\ proc = "failed")
            => /\ lastCode = 1
               /\ lpc' = "awaitDelay"
               /\ spawns' = spawns]_vars

\* the child was killed by a signal, and main() has cleaned up and waits
C39_Witness ==
    /\ restart.seen
    /\ proc = "exited" /\ exitCode = NoCode
    /\ lpc = "awaitDelay"
    /\ cleanups = 1

====
